---- MODULE Spec2Model ----
(***************************************************************************)
(* Walletwork pre-transaction firewall (Walletwork/backend).               *)
(*                                                                         *)
(*   risk_engine.py    is_valid_eth_address, is_burn_address,              *)
(*                     calculate_risk (one action per phase of the code)   *)
(*   graph_engine.py   GraphEngine: _load_scam_database,                   *)
(*                     check_scam_intelligence, analyze_wallet_connections *)
(*   simulation.py     FraudSimulator.simulate_risk                        *)
(*   etherscan.py      EtherscanClient.check_contract_verified             *)
(*   main.py           analyze_transaction (the orchestrated pipeline)     *)
(*                                                                         *)
(* Conventions.  A Python str is a sequence of one-character strings.      *)
(* An optional number (int | None) is a sequence of length at most one:    *)
(* << >> is None and <<n>> is n.  Fractions (confidence, drain             *)
(* probability, category multiplier) are integers counting hundredths.     *)
(* An optional string is the string itself or NoneVal.                     *)
(***************************************************************************)
EXTENDS Integers, Sequences, FiniteSets, TLC

VARIABLES
    pc,               \* position of the running call
    wallet,           \* calculate_risk / request argument
    contract,         \* calculate_risk / request argument
    tx_type,          \* calculate_risk / request argument
    onchain_data,     \* bundle passed to calculate_risk
    graph_signals,    \* bundle passed to calculate_risk
    forecast_signals, \* bundle passed to calculate_risk
    scam_intel,       \* bundle passed to calculate_risk
    score,            \* calculate_risk local: running total
    reasons,          \* calculate_risk local: reasons appended so far
    result,           \* value returned by calculate_risk, NoResult before
    scam_db,          \* the scam intelligence source read by the constructor
    scam_wallets,     \* GraphEngine.scam_wallets: address -> record
    scam_contracts,   \* GraphEngine.scam_contracts: address -> record
    scam_clusters,    \* GraphEngine.scam_clusters: cluster_id -> record
    all_scam_addresses, \* GraphEngine.all_scam_addresses
    address_to_cluster, \* GraphEngine.address_to_cluster: address -> cluster_id
    graph,            \* GraphEngine.graph
    queried,          \* the last direct engine call: operation and address
    recent_transfers, \* transfers handed to analyze_wallet_connections
    tasks,            \* the three upstream fetches of one request
    attempts,         \* how often each upstream call has been made
    verify_reply,     \* what the verification provider answered
    log,              \* the phase errors the handler has printed
    response,         \* the HTTP response of the request
    inflight          \* concurrent requests on one engine: id -> handler state

riskArgs == <<wallet, contract, tx_type, onchain_data, graph_signals,
              forecast_signals, scam_intel>>
riskVars == <<pc, score, reasons, result>>
indexVars == <<scam_wallets, scam_contracts, scam_clusters,
               all_scam_addresses, address_to_cluster>>
engineVars == <<scam_db, indexVars, graph, queried, recent_transfers>>
pipeVars == <<tasks, attempts, verify_reply, log, response, inflight>>
outerVars == <<engineVars, pipeVars>>
vars == <<riskArgs, riskVars, outerVars>>

----------------------------------------------------------------------------
(* Python values *)

NoneVal == "None"
None == << >>
Some(n) == <<n>>
IsNone(o) == Len(o) = 0
Val(o) == o[1]
EmptyDict == << >>
NoResult == [kind |-> "none"]

Rep(c, n) == [i \in 1..n |-> c]

Min(a, b) == IF a <= b THEN a ELSE b

\* str.lower() on the characters that occur in addresses
LowerChar(c) ==
    CASE c = "A" -> "a" [] c = "B" -> "b" [] c = "C" -> "c"
      [] c = "D" -> "d" [] c = "E" -> "e" [] c = "F" -> "f"
      [] c = "X" -> "x" [] OTHER -> c

lower(s) == [i \in 1..Len(s) |-> LowerChar(s[i])]

startswith(s, p) == Len(s) >= Len(p) /\ SubSeq(s, 1, Len(p)) = p

\* the Python test  p in s  on strings
Contains(s, p) ==
    \E i \in 1..(Len(s) - Len(p) + 1) : SubSeq(s, i, i + Len(p) - 1) = p

----------------------------------------------------------------------------
(* int(text, 16): the literal grammar CPython accepts for base 16 *)

HexDigits == {"0", "1", "2", "3", "4", "5", "6", "7", "8", "9",
              "a", "b", "c", "d", "e", "f", "A", "B", "C", "D", "E", "F"}
Spaces == {" ", "\t", "\n", "\r"}

RECURSIVE SkipSpaces(_, _)
SkipSpaces(s, i) ==
    IF i <= Len(s) /\ s[i] \in Spaces THEN SkipSpaces(s, i + 1) ELSE i

RECURSIVE SkipDigits(_, _)
SkipDigits(s, i) ==
    IF i <= Len(s) /\ s[i] \in (HexDigits \cup {"_"})
    THEN SkipDigits(s, i + 1) ELSE i

\* TRUE iff int(s, 16) returns, FALSE iff it raises ValueError
ParsesAsInt16(s) ==
    LET i1 == SkipSpaces(s, 1)
        i2 == IF i1 <= Len(s) /\ s[i1] \in {"+", "-"} THEN i1 + 1 ELSE i1
        pre == i2 + 1 <= Len(s) /\ s[i2] = "0" /\ s[i2 + 1] \in {"x", "X"}
        i3 == IF pre
              THEN IF i2 + 2 <= Len(s) /\ s[i2 + 2] = "_"
                   THEN i2 + 3 ELSE i2 + 2
              ELSE i2
        j  == SkipDigits(s, i3)
        body == SubSeq(s, i3, j - 1)
    IN  /\ Len(body) > 0
        /\ body[1] # "_"
        /\ body[Len(body)] # "_"
        /\ \A k \in 1..(Len(body) - 1) : ~(body[k] = "_" /\ body[k + 1] = "_")
        /\ SkipSpaces(s, j) = Len(s) + 1

----------------------------------------------------------------------------
(* risk_engine.py: constants and address predicates *)

ADDRESS_LENGTH == 42

\* variant: the CAUTION band reaches 70
RISK_LEVELS_Overlap ==
    << [label |-> "SAFE",      low |-> 0,  high |-> 29],
       [label |-> "CAUTION",   low |-> 30, high |-> 70],
       [label |-> "DANGEROUS", low |-> 70, high |-> 100] >>

RISK_LEVELS ==
    << [label |-> "SAFE",      low |-> 0,  high |-> 29],
       [label |-> "CAUTION",   low |-> 30, high |-> 69],
       [label |-> "DANGEROUS", low |-> 70, high |-> 100] >>

Prefix0x == <<"0", "x">>

BURN_ADDRESSES ==
    { Prefix0x \o Rep("0", 40),
      Prefix0x \o Rep("0", 36) \o <<"d", "e", "a", "d">>,
      Prefix0x \o <<"d", "e", "a", "d">> \o <<"d", "e", "a", "d">>
               \o <<"d", "e", "a", "d">> \o <<"d", "e", "a", "d">>
               \o <<"d", "e", "a", "d">> \o <<"d", "e", "a", "d">>
               \o <<"d", "e", "a", "d">> \o <<"d", "e", "a", "d">>
               \o <<"d", "e", "a", "d">> \o <<"d", "e", "a", "d">>,
      Prefix0x \o <<"d", "e", "a", "d">> \o Rep("0", 18)
               \o <<"4", "2", "0", "6", "9", "4", "2", "0", "6">>
               \o <<"9", "4", "2", "0", "6", "9", "4", "2", "0">>
               \o <<"6", "9">>,
      Prefix0x \o Rep("0", 36) \o <<"d", "E", "a", "D">> }

is_valid_eth_address(address) ==
    IF Len(address) = 0 THEN FALSE
    ELSE IF ~startswith(address, Prefix0x) THEN FALSE
    ELSE IF Len(address) # ADDRESS_LENGTH THEN FALSE
    ELSE ParsesAsInt16(SubSeq(address, 3, Len(address)))

is_burn_address(address) ==
    IF Len(address) = 0 THEN FALSE
    ELSE lower(address) \in BURN_ADDRESSES

----------------------------------------------------------------------------
(* risk_engine.py: calculate_risk, the rules in the order of the code *)

\* category_multipliers.get(scam_category, 1.0), in hundredths
CategoryMultiplier(category) ==
    CASE category = "approval_drainer" -> 120
      [] category = "phishing"         -> 115
      [] category = "drainer_operator" -> 120
      [] category = "malicious_router" -> 110
      [] category = "honeypot"         -> 115
      [] category = "rug_pull"         -> 110
      [] category = "scam_operator"    -> 110
      [] category = "fake_airdrop"     -> 105
      [] OTHER                         -> 100

BASE_PENALTY == 45

\* Python truthiness of an optional number: None and 0 are falsy
Truthy(o) == ~IsNone(o) /\ Val(o) # 0

\* confidence_factor = scam_confidence if scam_confidence else 1.0
ConfidenceFactor(confidence) ==
    IF Truthy(confidence) THEN Val(confidence) ELSE 100

\* penalty = int(base_penalty * multiplier * confidence_factor)
ScamPenalty(category, confidence) ==
    (BASE_PENALTY * CategoryMultiplier(category) * ConfidenceFactor(confidence))
        \div 10000

\* PHASE 1 (scam intelligence): what the rule adds and appends
ScamRule(intel) ==
    IF intel.scam_match
    THEN [add |-> ScamPenalty(intel.scam_category, intel.scam_confidence),
          reasons |-> <<"scam_flagged">> \o
              (IF Truthy(intel.scam_confidence) /\ Val(intel.scam_confidence) >= 90
               THEN <<"scam_high_confidence">> ELSE << >>)]
    ELSE [add |-> 0, reasons |-> << >>]

\* variant: three transactions still count as low activity
FreshWalletRule_UpToThree(tx_count) ==
    IF tx_count = 0
    THEN [add |-> 30, reasons |-> <<"fresh_wallet">>]
    ELSE IF tx_count > 0 /\ tx_count <= 3
    THEN [add |-> 15, reasons |-> <<"low_activity_wallet">>]
    ELSE [add |-> 0, reasons |-> << >>]

\* SIGNAL 1 (fresh wallet); the caller has excluded tx_count = None
FreshWalletRule(tx_count) ==
    IF tx_count = 0
    THEN [add |-> 30, reasons |-> <<"fresh_wallet">>]
    ELSE IF tx_count > 0 /\ tx_count < 3
    THEN [add |-> 15, reasons |-> <<"low_activity_wallet">>]
    ELSE [add |-> 0, reasons |-> << >>]

\* SIGNAL 2 (contract verification)
VerificationRule(is_contract, is_verified) ==
    IF is_contract
    THEN IF is_verified = "false"
         THEN [add |-> 35, reasons |-> <<"contract_unverified">>]
         ELSE IF is_verified = "true"
         THEN [add |-> 0, reasons |-> <<"contract_verified">>]
         ELSE [add |-> 0, reasons |-> << >>]
    ELSE [add |-> 0, reasons |-> <<"regular_wallet">>]

\* variant: the graph penalty is not suppressed by a direct match
GraphRule_NoMatchGuard(scam_match, hop_distance, nearest_scam_category) ==
    IF hop_distance = Some(0)
    THEN [add |-> 50, reasons |-> <<"graph_hop0">>]
    ELSE IF hop_distance = Some(1)
    THEN [add |-> 35, reasons |-> <<"graph_hop1">>]
    ELSE IF hop_distance = Some(2)
    THEN [add |-> 20, reasons |-> <<"graph_hop2">>]
    ELSE IF hop_distance = Some(3)
    THEN [add |-> 10, reasons |-> <<"graph_hop3">>]
    ELSE [add |-> 0, reasons |-> << >>]

\* PHASE 3 (graph intelligence); hop_distance is an optional number and
\* None compares unequal to every number
GraphRule(scam_match, hop_distance, nearest_scam_category) ==
    IF ~scam_match
    THEN IF hop_distance = Some(0)
         THEN [add |-> 50, reasons |-> <<"graph_hop0">>]
         ELSE IF hop_distance = Some(1)
         THEN [add |-> 35 + (IF nearest_scam_category \in
                                  {"approval_drainer", "drainer_operator"}
                             THEN 10 ELSE 0),
               reasons |-> <<"graph_hop1">>]
         ELSE IF hop_distance = Some(2)
         THEN [add |-> 20, reasons |-> <<"graph_hop2">>]
         ELSE IF hop_distance = Some(3)
         THEN [add |-> 10, reasons |-> <<"graph_hop3">>]
         ELSE [add |-> 0, reasons |-> << >>]
    ELSE [add |-> 0, reasons |-> << >>]

\* variant: approve weighs 40
TxTypeRule_ApproveForty(type, scam_category, drain_prob) ==
    IF type = "approve"
    THEN LET base == IF scam_category = "approval_drainer"
                     THEN [add |-> 40 + 20, reasons |-> <<"approve_drainer">>]
                     ELSE [add |-> 40, reasons |-> <<"approve">>]
             drain == IF drain_prob >= 80
                      THEN [add |-> 25, reasons |-> <<"drain_extreme">>]
                      ELSE IF drain_prob >= 50
                      THEN [add |-> 15, reasons |-> <<"drain_elevated">>]
                      ELSE [add |-> 0, reasons |-> << >>]
         IN  [add |-> base.add + drain.add,
              reasons |-> base.reasons \o drain.reasons]
    ELSE IF type = "swap"
    THEN IF scam_category \in {"malicious_router", "honeypot"}
         THEN [add |-> 10 + 25, reasons |-> <<"swap_malicious">>]
         ELSE [add |-> 10, reasons |-> <<"swap">>]
    ELSE IF type = "send" \/ type = "transfer"
    THEN [add |-> 5, reasons |-> <<"transfer">>]
    ELSE [add |-> 0, reasons |-> << >>]

\* PHASE 4 (transaction type and simulated drain probability)
TxTypeRule(type, scam_category, drain_prob) ==
    IF type = "approve"
    THEN LET base == IF scam_category = "approval_drainer"
                     THEN [add |-> 25 + 20, reasons |-> <<"approve_drainer">>]
                     ELSE [add |-> 25, reasons |-> <<"approve">>]
             drain == IF drain_prob >= 80
                      THEN [add |-> 25, reasons |-> <<"drain_extreme">>]
                      ELSE IF drain_prob >= 50
                      THEN [add |-> 15, reasons |-> <<"drain_elevated">>]
                      ELSE [add |-> 0, reasons |-> << >>]
         IN  [add |-> base.add + drain.add,
              reasons |-> base.reasons \o drain.reasons]
    ELSE IF type = "swap"
    THEN IF scam_category \in {"malicious_router", "honeypot"}
         THEN [add |-> 10 + 25, reasons |-> <<"swap_malicious">>]
         ELSE [add |-> 10, reasons |-> <<"swap">>]
    ELSE IF type = "send" \/ type = "transfer"
    THEN [add |-> 5, reasons |-> <<"transfer">>]
    ELSE [add |-> 0, reasons |-> << >>]

SuspiciousPatterns ==
    { <<"d", "e", "a", "d">>, <<"b", "a", "d">>, <<"s", "c", "a", "m">>,
      <<"f", "a", "k", "e">>, <<"p", "h", "i", "s", "h">> }

NullLikePrefix == Prefix0x \o Rep("0", 6)

\* SIGNAL 5 (static heuristics on the two addresses)
StaticRule(w, c) ==
    LET kw == IF \E p \in SuspiciousPatterns : Contains(lower(c), p)
              THEN [add |-> 25, reasons |-> <<"keyword_contract">>]
              ELSE [add |-> 0, reasons |-> << >>]
        np == IF startswith(lower(w), NullLikePrefix)
              THEN [add |-> 15, reasons |-> <<"null_prefix_wallet">>]
              ELSE [add |-> 0, reasons |-> << >>]
    IN  [add |-> kw.add + np.add, reasons |-> kw.reasons \o np.reasons]

\* variant: the total is returned uncapped
CapScore_NoCap(s) == s

\* score = min(score, 100)
CapScore(s) == Min(s, 100)

\* the loop over RISK_LEVELS: the first band that holds the score,
\* "SAFE" when none does
RECURSIVE LabelFrom(_, _)
LabelFrom(i, s) ==
    IF i > Len(RISK_LEVELS) THEN "SAFE"
    ELSE IF RISK_LEVELS[i].low <= s /\ s <= RISK_LEVELS[i].high
    THEN RISK_LEVELS[i].label
    ELSE LabelFrom(i + 1, s)

LabelOf(s) == LabelFrom(1, s)

\* variant: no default reasons
WithDefaultReasons_Skip(rs) == rs

\* if not reasons: the two default reasons
WithDefaultReasons(rs) ==
    IF Len(rs) = 0 THEN <<"all_checks_passed", "no_red_flags">> ELSE rs

\* the four conditions of PHASE 0
Phase0Reasons(w, c) ==
    (IF ~is_valid_eth_address(w) THEN <<"invalid_wallet">> ELSE << >>)
    \o (IF ~is_valid_eth_address(c) THEN <<"invalid_contract">> ELSE << >>)
    \o (IF is_burn_address(w) THEN <<"burn_wallet">> ELSE << >>)
    \o (IF is_burn_address(c) THEN <<"burn_contract">> ELSE << >>)

\* variant: a burn contract does not stop the analysis
IsTerminal_NoContractBurn(w, c) ==
    \/ ~is_valid_eth_address(w)
    \/ ~is_valid_eth_address(c)
    \/ is_burn_address(w)

IsTerminal(w, c) ==
    \/ ~is_valid_eth_address(w)
    \/ ~is_valid_eth_address(c)
    \/ is_burn_address(w)
    \/ is_burn_address(c)

TerminalResult(rs) ==
    [kind |-> "risk", risk |-> "DANGEROUS", score |-> 100, reasons |-> rs,
     onchain_signals |-> EmptyDict, graph_signals |-> EmptyDict,
     forecast_signals |-> EmptyDict, scam_intel |-> EmptyDict]

----------------------------------------------------------------------------
(* calculate_risk as a sequence of steps *)

Phase0Validation ==
    /\ pc = "phase0"
    /\ LET rs == Phase0Reasons(wallet, contract)
       IN  /\ score' = 100 * Len(rs)
           /\ reasons' = rs
           /\ IF IsTerminal(wallet, contract)
              THEN /\ result' = TerminalResult(rs)
                   /\ pc' = "returned"
              ELSE /\ result' = result
                   /\ pc' = "phase1"
    /\ UNCHANGED <<riskArgs, outerVars>>

\* variant: a rule puts its reasons in front of the earlier ones
Apply_Prepend(rule, next) ==
    /\ score' = score + rule.add
    /\ reasons' = rule.reasons \o reasons
    /\ pc' = next
    /\ UNCHANGED <<result, riskArgs, outerVars>>

Apply(rule, next) ==
    /\ score' = score + rule.add
    /\ reasons' = reasons \o rule.reasons
    /\ pc' = next
    /\ UNCHANGED <<result, riskArgs, outerVars>>

Phase1ScamIntel ==
    /\ pc = "phase1"
    /\ Apply(ScamRule(scam_intel), "signal1")

\* tx_count > 0 raises TypeError when tx_count is None
Signal1FreshWallet ==
    /\ pc = "signal1"
    /\ IF IsNone(onchain_data.tx_count)
       THEN /\ pc' = "raised"
            /\ UNCHANGED <<score, reasons, result, riskArgs, outerVars>>
       ELSE Apply(FreshWalletRule(Val(onchain_data.tx_count)), "signal2")

Signal2ContractVerification ==
    /\ pc = "signal2"
    /\ Apply(VerificationRule(onchain_data.is_contract,
                              onchain_data.contract_verified), "phase3")

Phase3GraphIntelligence ==
    /\ pc = "phase3"
    /\ Apply(GraphRule(scam_intel.scam_match,
                       graph_signals.wallet_scam_distance,
                       graph_signals.nearest_scam_category), "phase4")

Phase4TransactionType ==
    /\ pc = "phase4"
    /\ Apply(TxTypeRule(tx_type, scam_intel.scam_category,
                        forecast_signals.drain_probability), "signal5")

Signal5StaticHeuristics ==
    /\ pc = "signal5"
    /\ Apply(StaticRule(wallet, contract), "final")

\* the cap, the label, the default reasons and the returned dict, whose
\* "graph_hop_distance" entry evaluates hop_distance >= 0 (TypeError on None)
FinalScore ==
    /\ pc = "final"
    /\ score' = CapScore(score)
    /\ reasons' = WithDefaultReasons(reasons)
    /\ IF IsNone(graph_signals.wallet_scam_distance)
       THEN /\ pc' = "raised"
            /\ result' = result
       ELSE /\ pc' = "returned"
            /\ result' = [kind |-> "risk", risk |-> LabelOf(score'),
                          score |-> score', reasons |-> reasons',
                          onchain_signals |-> onchain_data,
                          graph_signals |-> graph_signals,
                          forecast_signals |-> forecast_signals,
                          scam_intel |-> scam_intel]
    /\ UNCHANGED <<riskArgs, outerVars>>

CalculateRisk ==
    \/ Phase0Validation
    \/ Phase1ScamIntel
    \/ Signal1FreshWallet
    \/ Signal2ContractVerification
    \/ Phase3GraphIntelligence
    \/ Phase4TransactionType
    \/ Signal5StaticHeuristics
    \/ FinalScore

----------------------------------------------------------------------------
(* graph_engine.py: the scam intelligence database and its loader.        *)
(* A source is absent, unreadable as JSON, or a record set of three lists. *)
(* An entry field that the JSON object lacks is Missing; the free-text     *)
(* "notes" field and the "cluster_info" copy of a cluster record are left  *)
(* out.                                                                    *)

\* a category, source or cluster id the JSON object lacks
Missing == "<missing>"
\* an address the JSON object lacks, and a JSON null in place of an address
MissingStr == <<"<missing>">>
NullStr == <<"<null>">>
\* a confidence the JSON object lacks
MissingNum == <<0, 0>>
EmptyMap == << >>

\* an address list the JSON object lacks
MissingList == <<MissingStr>>

\* dict.get(key, default) on an entry field, by the type of the field
GetStr(value, default) == IF value = Missing THEN default ELSE value
GetNum(value, default) == IF value = MissingNum THEN default ELSE value
GetList(value, default) == IF value = MissingList THEN default ELSE value

\* d[k] = v
Put(d, k, v) == [x \in (DOMAIN d) \cup {k} |-> IF x = k THEN v ELSE d[x]]

\* d.get(k), None when absent
Lookup(d, k) == IF k \in DOMAIN d THEN d[k] ELSE NoneVal

\* entry["address"].lower() raises on a missing key and on a null address
AddressUsable(entry) == entry.address # MissingStr /\ entry.address # NullStr

EmptyIndex ==
    [scam_wallets |-> EmptyMap, scam_contracts |-> EmptyMap,
     scam_clusters |-> EmptyMap, all_scam_addresses |-> {},
     address_to_cluster |-> EmptyMap, failed |-> FALSE]

RecordOf(entry) ==
    [category |-> GetStr(entry.category, "unknown"),
     source |-> GetStr(entry.source, "unknown"),
     confidence |-> GetNum(entry.confidence, Some(50))]

\* one pass of "for entry in scam_data.get('wallets', [])" from entry i on;
\* an exception leaves what was stored before it
RECURSIVE LoadWallets(_, _, _)
LoadWallets(entries, i, idx) ==
    IF i > Len(entries) \/ idx.failed THEN idx
    ELSE IF ~AddressUsable(entries[i]) THEN [idx EXCEPT !.failed = TRUE]
    ELSE LET addr == lower(entries[i].address)
         IN  LoadWallets(entries, i + 1,
                [idx EXCEPT !.scam_wallets = Put(@, addr, RecordOf(entries[i])),
                            !.all_scam_addresses = @ \cup {addr}])

RECURSIVE LoadContracts(_, _, _)
LoadContracts(entries, i, idx) ==
    IF i > Len(entries) \/ idx.failed THEN idx
    ELSE IF ~AddressUsable(entries[i]) THEN [idx EXCEPT !.failed = TRUE]
    ELSE LET addr == lower(entries[i].address)
         IN  LoadContracts(entries, i + 1,
                [idx EXCEPT !.scam_contracts = Put(@, addr, RecordOf(entries[i])),
                            !.all_scam_addresses = @ \cup {addr}])

\* variant: a cluster member is mapped but not added to the flat set
MapMember_NoFlatSet(idx, addr, cluster_id) ==
    [idx EXCEPT !.address_to_cluster = Put(@, addr, cluster_id)]

\* one member of a cluster: the reverse mapping and the flat set
MapMember(idx, addr, cluster_id) ==
    [idx EXCEPT !.address_to_cluster = Put(@, addr, cluster_id),
                !.all_scam_addresses = @ \cup {addr}]

\* "for addr in addresses"
RECURSIVE MapMembers(_, _, _, _)
MapMembers(addresses, k, cluster_id, idx) ==
    IF k > Len(addresses) THEN idx
    ELSE MapMembers(addresses, k + 1, cluster_id,
                    MapMember(idx, addresses[k], cluster_id))

\* [addr.lower() for addr in cluster.get("addresses", [])] raises on a null
\* member before anything of the cluster is stored
RECURSIVE LoadClusters(_, _, _)
LoadClusters(clusters, i, idx) ==
    IF i > Len(clusters) \/ idx.failed THEN idx
    ELSE LET cluster == clusters[i]
             cluster_id == GetStr(cluster.cluster_id, "unknown_cluster")
             raw == GetList(cluster.addresses, << >>)
         IN  IF \E k \in 1..Len(raw) : raw[k] = NullStr
             THEN [idx EXCEPT !.failed = TRUE]
             ELSE LET addresses == [k \in 1..Len(raw) |-> lower(raw[k])]
                      stored == [idx EXCEPT !.scam_clusters =
                                    Put(@, cluster_id,
                                        [addresses |-> addresses,
                                         source |-> GetStr(cluster.source, "unknown"),
                                         confidence |-> GetNum(cluster.confidence,
                                                               Some(50))])]
                  IN  LoadClusters(clusters, i + 1,
                          MapMembers(addresses, 1, cluster_id, stored))

\* _load_scam_database on the index the constructor has just emptied
LoadedIndex(db) ==
    IF ~db.exists THEN EmptyIndex
    ELSE IF ~db.parses THEN [EmptyIndex EXCEPT !.failed = TRUE]
    ELSE LoadClusters(db.clusters, 1,
            LoadContracts(db.contracts, 1,
                LoadWallets(db.wallets, 1, EmptyIndex)))

EmptyGraph == [nodes |-> << >>, edges |-> {}]

\* GraphEngine.__init__: the five empty structures, the load, a new graph
Construct ==
    /\ pc = "construct"
    /\ LET idx == LoadedIndex(scam_db)
       IN  /\ scam_wallets' = idx.scam_wallets
           /\ scam_contracts' = idx.scam_contracts
           /\ scam_clusters' = idx.scam_clusters
           /\ all_scam_addresses' = idx.all_scam_addresses
           /\ address_to_cluster' = idx.address_to_cluster
    /\ graph' = EmptyGraph
    /\ pc' = "ready"
    /\ UNCHANGED <<scam_db, queried, recent_transfers, riskArgs,
                   score, reasons, result, pipeVars>>

----------------------------------------------------------------------------
(* graph_engine.py: check_scam_intelligence *)

NoMatchIntel ==
    [scam_match |-> FALSE, scam_type |-> NoneVal, scam_category |-> NoneVal,
     scam_source |-> NoneVal, scam_confidence |-> None, cluster_id |-> NoneVal]

\* Python truthiness of an optional string: None and "" are falsy
TruthyStr(x) == x # NoneVal /\ x # ""

check_scam_intelligence(address) ==
    LET addr_lower == lower(address)
        cluster_id == Lookup(address_to_cluster, addr_lower)
    IN  IF addr_lower \in DOMAIN scam_wallets
        THEN [scam_match |-> TRUE, scam_type |-> "wallet",
              scam_category |-> scam_wallets[addr_lower].category,
              scam_source |-> scam_wallets[addr_lower].source,
              scam_confidence |-> scam_wallets[addr_lower].confidence,
              cluster_id |-> cluster_id]
        ELSE IF addr_lower \in DOMAIN scam_contracts
        THEN [scam_match |-> TRUE, scam_type |-> "contract",
              scam_category |-> scam_contracts[addr_lower].category,
              scam_source |-> scam_contracts[addr_lower].source,
              scam_confidence |-> scam_contracts[addr_lower].confidence,
              cluster_id |-> cluster_id]
        ELSE IF TruthyStr(cluster_id)
        THEN [scam_match |-> TRUE, scam_type |-> "cluster_member",
              scam_category |-> "cluster_associated",
              scam_source |-> IF cluster_id \in DOMAIN scam_clusters
                              THEN scam_clusters[cluster_id].source
                              ELSE "unknown",
              scam_confidence |-> IF cluster_id \in DOMAIN scam_clusters
                                  THEN scam_clusters[cluster_id].confidence
                                  ELSE Some(50),
              cluster_id |-> cluster_id]
        ELSE NoMatchIntel

\* a direct call of the lookup; the returned dict is kept in scam_intel
CheckScamIntelligence(address) ==
    /\ pc = "ready"
    /\ queried' = [op |-> "lookup", address |-> address]
    /\ scam_intel' = check_scam_intelligence(address)
    /\ UNCHANGED <<pc, scam_db, indexVars, graph, recent_transfers,
                   wallet, contract, tx_type, onchain_data, graph_signals,
                   forecast_signals, score, reasons, result, pipeVars>>

----------------------------------------------------------------------------
(* graph_engine.py: analyze_wallet_connections.  The graph keeps its nodes *)
(* in insertion order, the order graph.nodes() iterates in; an edge is the *)
(* set of its endpoints.  A transfer field that is absent or empty is the  *)
(* empty string, a JSON null is NullStr.                                   *)

Range(q) == {q[i] : i \in 1..Len(q)}

add_node(g, n) ==
    IF n \in Range(g.nodes) THEN g ELSE [g EXCEPT !.nodes = Append(@, n)]

add_edge(g, u, v) ==
    [add_node(add_node(g, u), v) EXCEPT !.edges = @ \cup {{u, v}}]

\* the loop over recent_transfers; None.lower() raises AttributeError and
\* leaves the graph as built so far
RECURSIVE BuildGraph(_, _, _)
BuildGraph(transfers, i, g) ==
    IF i > Len(transfers) THEN [graph |-> g, raised |-> FALSE]
    ELSE LET tx == transfers[i]
         IN  IF tx.from = NullStr \/ tx.to = NullStr
             THEN [graph |-> g, raised |-> TRUE]
             ELSE LET frm == lower(tx.from)
                      to == lower(tx.to)
                  IN  IF Len(frm) > 0 /\ Len(to) > 0
                      THEN BuildGraph(transfers, i + 1, add_edge(g, frm, to))
                      ELSE BuildGraph(transfers, i + 1, g)

Neighbours(g, ns) ==
    {m \in Range(g.nodes) : \E n \in ns : {n, m} \in g.edges}

NoPath == -1

\* nx.shortest_path_length: breadth-first levels from the source;
\* NoPath stands for the NetworkXNoPath exception
RECURSIVE Levels(_, _, _, _, _)
Levels(g, frontier, visited, d, target) ==
    IF target \in frontier THEN d
    ELSE LET next == Neighbours(g, frontier) \ visited
         IN  IF next = {} THEN NoPath
             ELSE Levels(g, next, visited \cup next, d + 1, target)

shortest_path_length(g, source, target) ==
    Levels(g, {source}, {source}, 0, target)

\* category and source of a flagged node, the wallet map first; a node in
\* neither map leaves the values found so far
TrackNearest(acc, node) ==
    IF node \in DOMAIN scam_wallets
    THEN [acc EXCEPT !.category = scam_wallets[node].category,
                     !.source = scam_wallets[node].source]
    ELSE IF node \in DOMAIN scam_contracts
    THEN [acc EXCEPT !.category = scam_contracts[node].category,
                     !.source = scam_contracts[node].source]
    ELSE acc

\* "for node in self.graph.nodes()", min is None for float("inf")
RECURSIVE ScanNodes(_, _, _, _)
ScanNodes(g, wallet_lower, i, acc) ==
    IF i > Len(g.nodes) THEN acc
    ELSE LET node == g.nodes[i]
             dist == shortest_path_length(g, wallet_lower, node)
         IN  IF node \in all_scam_addresses /\ dist # NoPath
                /\ (IsNone(acc.min) \/ dist < Val(acc.min))
             THEN ScanNodes(g, wallet_lower, i + 1,
                      TrackNearest([acc EXCEPT !.min = Some(dist),
                                               !.connected = TRUE], node))
             ELSE ScanNodes(g, wallet_lower, i + 1, acc)

\* _generate_hop_explanation; float("inf") takes the "distance > 3" branch
generate_hop_explanation(distance) ==
    IF distance = Some(0) THEN "directly_flagged"
    ELSE IF distance = Some(1) THEN "direct_interaction"
    ELSE IF distance = Some(2) THEN "two_hops"
    ELSE IF distance = Some(3) THEN "three_hops"
    ELSE IF IsNone(distance) \/ Val(distance) > 3 THEN "very_distant_or_none"
    ELSE "no_connection"

NotFound ==
    [min |-> None, connected |-> FALSE, category |-> NoneVal, source |-> NoneVal]

\* the signals computed on a graph that has been built
Nearest(g, wallet_lower) ==
    IF wallet_lower \in all_scam_addresses
    THEN TrackNearest([NotFound EXCEPT !.min = Some(0), !.connected = TRUE],
                      wallet_lower)
    ELSE ScanNodes(g, wallet_lower, 1, NotFound)

\* variant: no sentinel, a wallet without reachable flagged node reports 0
SignalsOf_NoSentinel(found) ==
    [wallet_scam_distance |-> IF IsNone(found.min) THEN Some(0) ELSE found.min,
     connected_to_scam_cluster |-> found.connected,
     nearest_scam_category |-> found.category,
     nearest_scam_source |-> found.source,
     graph_explanation |-> generate_hop_explanation(found.min)]

SignalsOf(found) ==
    [wallet_scam_distance |-> IF IsNone(found.min) THEN Some(-1) ELSE found.min,
     connected_to_scam_cluster |-> found.connected,
     nearest_scam_category |-> found.category,
     nearest_scam_source |-> found.source,
     graph_explanation |-> generate_hop_explanation(found.min)]

\* variant: the graph of the engine is not cleared before the build
BuiltGraph_NoClear(w, transfers) ==
    BuildGraph(transfers, 1, add_node(graph, lower(w)))

\* graph.clear(), add_node(wallet_lower) and the transfers
BuiltGraph(w, transfers) ==
    BuildGraph(transfers, 1, add_node(EmptyGraph, lower(w)))

\* a direct call of the analysis; the returned dict is kept in graph_signals,
\* an exception leaves it as it was
AnalyzeWalletConnections(w, transfers) ==
    /\ pc = "ready"
    /\ queried' = [op |-> "analyze", address |-> w]
    /\ recent_transfers' = transfers
    /\ LET built == BuiltGraph(w, transfers)
       IN  /\ graph' = built.graph
           /\ IF built.raised
              THEN graph_signals' = graph_signals
              ELSE graph_signals' = SignalsOf(Nearest(built.graph, lower(w)))
    /\ UNCHANGED <<pc, scam_db, indexVars, wallet, contract, tx_type,
                   onchain_data, forecast_signals, scam_intel,
                   score, reasons, result, pipeVars>>

----------------------------------------------------------------------------
(* Values of an engine and a handler that have not been used *)

NoQuery == [op |-> "none", address |-> << >>]
NoSource == [exists |-> FALSE, parses |-> FALSE, wallets |-> << >>,
             contracts |-> << >>, clusters |-> << >>]

\* an engine over an absent source that has not been called
EngineIdle ==
    /\ scam_db = NoSource
    /\ scam_wallets = EmptyMap
    /\ scam_contracts = EmptyMap
    /\ scam_clusters = EmptyMap
    /\ all_scam_addresses = {}
    /\ address_to_cluster = EmptyMap
    /\ graph = EmptyGraph
    /\ queried = NoQuery
    /\ recent_transfers = << >>

IdleTask == [state |-> "idle"]
NoAttempts ==
    [get_tx_count |-> 0, get_contract_code |-> 0, get_recent_transfers |-> 0,
     check_contract_verified |-> 0]
NoReply == [kind |-> "none"]
NoResponse == [status |-> 0]

\* no request is being handled
HandlerIdle ==
    /\ tasks = [tx_count |-> IdleTask, code |-> IdleTask, transfers |-> IdleTask]
    /\ attempts = NoAttempts
    /\ verify_reply = NoReply
    /\ log = {}
    /\ response = NoResponse
    /\ inflight = << >>

----------------------------------------------------------------------------
(* simulation.py: FraudSimulator.simulate_risk; probabilities in hundredths *)

Forecast(p, w) == [drain_probability |-> p, attack_window_blocks |-> w]

\* variant: the swap thresholds taken inclusively
simulate_risk_SwapInclusive(type, contract_risk_score, is_scam_linked) ==
    IF type = "approve"
    THEN IF is_scam_linked THEN Forecast(85, 10)
         ELSE IF contract_risk_score >= 70 THEN Forecast(70, 50)
         ELSE IF contract_risk_score >= 50 THEN Forecast(45, 100)
         ELSE IF contract_risk_score >= 30 THEN Forecast(25, 500)
         ELSE Forecast(5, 1000)
    ELSE IF type = "swap"
    THEN IF is_scam_linked THEN Forecast(90, 1)
         ELSE IF contract_risk_score >= 60 THEN Forecast(60, 5)
         ELSE IF contract_risk_score >= 30 THEN Forecast(20, 50)
         ELSE Forecast(3, 0)
    ELSE IF type = "transfer" \/ type = "send"
    THEN IF is_scam_linked THEN Forecast(95, 1)
         ELSE IF contract_risk_score > 50 THEN Forecast(30, 10)
         ELSE Forecast(1, 0)
    ELSE Forecast(0, 0)

simulate_risk(type, contract_risk_score, is_scam_linked) ==
    IF type = "approve"
    THEN IF is_scam_linked THEN Forecast(85, 10)
         ELSE IF contract_risk_score >= 70 THEN Forecast(70, 50)
         ELSE IF contract_risk_score >= 50 THEN Forecast(45, 100)
         ELSE IF contract_risk_score >= 30 THEN Forecast(25, 500)
         ELSE Forecast(5, 1000)
    ELSE IF type = "swap"
    THEN IF is_scam_linked THEN Forecast(90, 1)
         ELSE IF contract_risk_score > 60 THEN Forecast(60, 5)
         ELSE IF contract_risk_score > 30 THEN Forecast(20, 50)
         ELSE Forecast(3, 0)
    ELSE IF type = "transfer" \/ type = "send"
    THEN IF is_scam_linked THEN Forecast(95, 1)
         ELSE IF contract_risk_score > 50 THEN Forecast(30, 10)
         ELSE Forecast(1, 0)
    ELSE Forecast(0, 0)

----------------------------------------------------------------------------
(* etherscan.py: EtherscanClient.check_contract_verified.  A reply is      *)
(*   [kind |-> "no_api_key"]       the key is unset or the placeholder     *)
(*   [kind |-> "client_error"]     the HTTP client cannot be created       *)
(*   [kind |-> "request_error"]    the request, the status check or the    *)
(*                                 JSON decoding raises                    *)
(*   [kind |-> "json", message, invalid_key, status]   a decoded body;     *)
(*       invalid_key says whether "Invalid API Key" occurs in its result,  *)
(*       status is Missing when the body has no "status"                   *)
(* The value is "true", "false", "none", or "raise" for an exception that  *)
(* leaves the method.                                                      *)

check_contract_verified(reply) ==
    IF reply.kind = "no_api_key" THEN "none"
    ELSE IF reply.kind = "client_error" THEN "raise"
    ELSE IF reply.kind = "request_error" THEN "none"
    ELSE IF reply.message = "NOTOK" /\ reply.invalid_key THEN "none"
    ELSE IF reply.status = Missing THEN "none"
    ELSE IF reply.status = "1" THEN "true"
    ELSE "false"

----------------------------------------------------------------------------
(* models.py: AnalyzeRequest *)

validate_address(v) ==
    startswith(v, Prefix0x) /\ Len(v) = ADDRESS_LENGTH

TxTypeLiteral == {"approve", "swap", "send"}

----------------------------------------------------------------------------
(* main.py: analyze_transaction.  The three fetches are issued together,   *)
(* complete in any order and are joined; everything after the join runs    *)
(* without suspension except the verification call.  A fault is an         *)
(* exception raised inside a phase for a reason outside the modelled code. *)

\* request validation by the AnalyzeRequest model, before the handler runs
ReceiveRequest ==
    /\ pc = "request"
    /\ IF validate_address(wallet) /\ validate_address(contract)
          /\ tx_type \in TxTypeLiteral
       THEN /\ pc' = "gather"
            /\ response' = response
       ELSE /\ pc' = "responded"
            /\ response' = [status |-> 422]
    /\ UNCHANGED <<riskArgs, score, reasons, result, engineVars,
                   tasks, attempts, verify_reply, log, inflight>>

Pending == [state |-> "pending"]

\* variant: the transaction count is requested a second time
IssueFetches_Retry ==
    /\ pc = "gather"
    /\ tasks' = [tx_count |-> Pending, code |-> Pending, transfers |-> Pending]
    /\ attempts' = [attempts EXCEPT !.get_tx_count = @ + 2,
                                    !.get_contract_code = @ + 1,
                                    !.get_recent_transfers = @ + 1]
    /\ pc' = "await"
    /\ UNCHANGED <<riskArgs, score, reasons, result, engineVars,
                   verify_reply, log, response, inflight>>

\* the three coroutines handed to asyncio.gather
IssueFetches ==
    /\ pc = "gather"
    /\ tasks' = [tx_count |-> Pending, code |-> Pending, transfers |-> Pending]
    /\ attempts' = [attempts EXCEPT !.get_tx_count = @ + 1,
                                    !.get_contract_code = @ + 1,
                                    !.get_recent_transfers = @ + 1]
    /\ pc' = "await"
    /\ UNCHANGED <<riskArgs, score, reasons, result, engineVars,
                   verify_reply, log, response, inflight>>

Failed == [state |-> "failed"]
Done(v) == [state |-> "done", value |-> v]

\* blockchain.py get_tx_count: the RPC result as a number, or the exception
get_tx_count(rpc) == IF rpc.ok THEN Done(rpc.result) ELSE Failed

\* blockchain.py get_contract_code
get_contract_code(rpc) == IF rpc.ok THEN Done(rpc.result) ELSE Failed

\* blockchain.py get_recent_transfers: any exception becomes the empty list
get_recent_transfers(rpc) == IF rpc.ok THEN Done(rpc.result) ELSE Done(<< >>)

RpcError == [ok |-> FALSE]
RpcResult(v) == [ok |-> TRUE, result |-> v]

CompleteFetch(name, outcome) ==
    /\ pc = "await"
    /\ tasks[name] = Pending
    /\ tasks' = [tasks EXCEPT ![name] = outcome]
    /\ UNCHANGED <<pc, riskArgs, score, reasons, result, engineVars,
                   attempts, verify_reply, log, response, inflight>>

CodeEmpty == Prefix0x

\* after the gather: failures normalised, contract detection, onchain_data
\* with contract_verified still None
JoinFetches ==
    /\ pc = "await"
    /\ \A name \in {"tx_count", "code", "transfers"} : tasks[name] # Pending
    /\ LET tx_count == IF tasks.tx_count = Failed THEN None
                       ELSE Some(tasks.tx_count.value)
           contract_code == IF tasks.code = Failed THEN CodeEmpty
                            ELSE tasks.code.value
           transfers == IF tasks.transfers = Failed THEN << >>
                        ELSE tasks.transfers.value
           is_contract == Len(contract_code) > 0 /\ contract_code # CodeEmpty
                          /\ Len(contract_code) > 2
       IN  /\ onchain_data' = [tx_count |-> tx_count,
                               is_contract |-> is_contract,
                               contract_verified |-> "none"]
           /\ recent_transfers' = transfers
           /\ pc' = IF is_contract THEN "verify" ELSE "scam"
    /\ UNCHANGED <<wallet, contract, tx_type, graph_signals, forecast_signals,
                   scam_intel, score, reasons, result, scam_db, indexVars,
                   graph, queried, pipeVars>>

\* await etherscan_client.check_contract_verified; an exception gives None
VerifyContract(reply) ==
    /\ pc = "verify"
    /\ verify_reply' = reply
    /\ attempts' = [attempts EXCEPT !.check_contract_verified = @ + 1]
    /\ LET v == check_contract_verified(reply)
       IN  onchain_data' = [onchain_data EXCEPT !.contract_verified =
                                IF v = "raise" THEN "none" ELSE v]
    /\ pc' = "scam"
    /\ UNCHANGED <<wallet, contract, tx_type, graph_signals, forecast_signals,
                   scam_intel, score, reasons, result, engineVars,
                   tasks, log, response, inflight>>

\* the except branch of PHASE 1
ScamIntelDefault == NoMatchIntel

\* PHASE 1: both lookups, the contract's result first when it matches
ScamLookup(fault) ==
    /\ pc = "scam"
    /\ IF fault
       THEN /\ scam_intel' = ScamIntelDefault
            /\ log' = log \cup {"phase1"}
       ELSE /\ LET wallet_intel == check_scam_intelligence(wallet)
                   contract_intel == check_scam_intelligence(contract)
               IN  scam_intel' = IF contract_intel.scam_match
                                 THEN contract_intel ELSE wallet_intel
            /\ log' = log
    /\ pc' = "graph"
    /\ UNCHANGED <<wallet, contract, tx_type, onchain_data, graph_signals,
                   forecast_signals, score, reasons, result, engineVars,
                   tasks, attempts, verify_reply, response, inflight>>

\* the except branch of PHASE 3; keys the dict lacks read as None
GraphUnavailable ==
    [wallet_scam_distance |-> None,
     connected_to_scam_cluster |-> FALSE,
     nearest_scam_category |-> NoneVal,
     nearest_scam_source |-> NoneVal,
     graph_explanation |-> "unavailable"]

\* PHASE 3: the analysis on the shared engine, contained when it raises
GraphAnalysis ==
    /\ pc = "graph"
    /\ LET built == BuiltGraph(wallet, recent_transfers)
       IN  /\ graph' = built.graph
           /\ IF built.raised
              THEN /\ graph_signals' = GraphUnavailable
                   /\ log' = log \cup {"phase3"}
              ELSE /\ graph_signals' =
                          SignalsOf(Nearest(built.graph, lower(wallet)))
                   /\ log' = log
    /\ pc' = "forecast"
    /\ UNCHANGED <<wallet, contract, tx_type, onchain_data, forecast_signals,
                   scam_intel, score, reasons, result, scam_db, indexVars,
                   queried, recent_transfers, tasks, attempts, verify_reply,
                   response, inflight>>

\* the contract-risk estimate that parameterises the simulator
ContractRiskEstimate(intel, onchain, signals) ==
    LET is_direct_scam == intel.scam_match
        is_graph_exposed == signals.connected_to_scam_cluster
        is_unverified_contract ==
            onchain.is_contract /\ onchain.contract_verified = "false"
        is_verification_unknown ==
            onchain.is_contract /\ onchain.contract_verified = "none"
        base == IF is_direct_scam
                THEN LET severity == IF intel.scam_category \in
                                          {"approval_drainer", "drainer_operator"}
                                     THEN 95 ELSE 80
                     IN  IF Truthy(intel.scam_confidence)
                         THEN (severity * Val(intel.scam_confidence)) \div 100
                         ELSE severity
                ELSE IF is_unverified_contract THEN 35
                ELSE IF is_verification_unknown THEN 15
                ELSE 0
    IN  IF is_graph_exposed /\ ~is_direct_scam THEN base + 30 ELSE base

\* the except branch of PHASE 4
ForecastDefault == Forecast(0, 0)

\* variant: only a direct match counts as a scam link
ForecastSimulation_DirectOnly(fault) ==
    /\ pc = "forecast"
    /\ IF fault
       THEN /\ forecast_signals' = ForecastDefault
            /\ log' = log \cup {"phase4"}
       ELSE /\ forecast_signals' =
                  simulate_risk(tx_type,
                      ContractRiskEstimate(scam_intel, onchain_data, graph_signals),
                      scam_intel.scam_match)
            /\ log' = log
    /\ pc' = "score"
    /\ UNCHANGED <<wallet, contract, tx_type, onchain_data, graph_signals,
                   scam_intel, score, reasons, result, engineVars,
                   tasks, attempts, verify_reply, response, inflight>>

\* PHASE 4: the estimate and the simulator
ForecastSimulation(fault) ==
    /\ pc = "forecast"
    /\ IF fault
       THEN /\ forecast_signals' = ForecastDefault
            /\ log' = log \cup {"phase4"}
       ELSE /\ forecast_signals' =
                  simulate_risk(tx_type,
                      ContractRiskEstimate(scam_intel, onchain_data, graph_signals),
                      scam_intel.scam_match
                          \/ graph_signals.connected_to_scam_cluster)
            /\ log' = log
    /\ pc' = "score"
    /\ UNCHANGED <<wallet, contract, tx_type, onchain_data, graph_signals,
                   scam_intel, score, reasons, result, engineVars,
                   tasks, attempts, verify_reply, response, inflight>>

\* PHASE 5: the call of calculate_risk
CallCalculateRisk ==
    /\ pc = "score"
    /\ score' = 0
    /\ reasons' = << >>
    /\ pc' = "phase0"
    /\ UNCHANGED <<riskArgs, result, outerVars>>

\* return result, or the top-level handler turning an exception into 500
Respond ==
    /\ pc \in {"returned", "raised"}
    /\ response' = IF pc = "returned" THEN [status |-> 200, body |-> result]
                   ELSE [status |-> 500]
    /\ pc' = "responded"
    /\ UNCHANGED <<riskArgs, score, reasons, result, engineVars,
                   tasks, attempts, verify_reply, log, inflight>>

----------------------------------------------------------------------------
(* Direct calls of calculate_risk: the arguments a caller can pass *)

MaxHop == 4

ADDR_PLAIN_WALLET   == Prefix0x \o Rep("1", 40)
ADDR_PLAIN_CONTRACT == Prefix0x \o Rep("2", 40)
ADDR_NULL_PREFIX    == Prefix0x \o Rep("0", 6) \o Rep("1", 34)
ADDR_KEYWORD        == Prefix0x \o <<"b", "A", "d">> \o Rep("2", 37)
ADDR_BURN_DEAD      == Prefix0x \o Rep("0", 36) \o <<"d", "E", "a", "D">>
ADDR_BURN_ZERO      == Prefix0x \o Rep("0", 40)
ADDR_NOT_HEX        == Prefix0x \o Rep("g", 40)
ADDR_SHORT          == Prefix0x \o Rep("2", 39)

Wallets == {ADDR_PLAIN_WALLET, ADDR_NULL_PREFIX, ADDR_BURN_DEAD, ADDR_NOT_HEX}
Contracts == {ADDR_PLAIN_CONTRACT, ADDR_KEYWORD, ADDR_BURN_ZERO, ADDR_SHORT}

\* every wallet with the plain contract, every contract with the plain
\* wallet, and two pairs in which both addresses trigger a condition
AddressPairs ==
    (Wallets \X {ADDR_PLAIN_CONTRACT})
    \cup ({ADDR_PLAIN_WALLET} \X Contracts)
    \cup {<<ADDR_NULL_PREFIX, ADDR_KEYWORD>>, <<ADDR_BURN_DEAD, ADDR_SHORT>>}


\* the drain probability is varied where the code branches on it (approve)
TypedForecasts ==
    ({"approve"} \X {0, 50, 80})
    \cup ({"swap", "send", "transfer", "mint"} \X {0})
    \cup {<<"swap", 80>>}

TxCounts == {None, Some(0), Some(2), Some(3)}

OnchainBundles ==
    { [tx_count |-> t, is_contract |-> c[1], contract_verified |-> c[2]] :
        t \in TxCounts,
        c \in {<<FALSE, "none">>, <<TRUE, "true">>,
               <<TRUE, "false">>, <<TRUE, "none">>} }

GraphBundle(hop, category) ==
    [wallet_scam_distance |-> hop,
     connected_to_scam_cluster |-> (~IsNone(hop) /\ Val(hop) >= 0),
     nearest_scam_category |-> category,
     nearest_scam_source |-> NoneVal,
     graph_explanation |-> generate_hop_explanation(hop)]

GraphBundles ==
    {GraphBundle(None, NoneVal), GraphBundle(Some(-1), NoneVal),
     GraphBundle(Some(1), "approval_drainer")}
    \cup {GraphBundle(Some(h), NoneVal) : h \in 0..MaxHop}

MatchIntel(category, confidence) ==
    [scam_match |-> TRUE, scam_type |-> "wallet", scam_category |-> category,
     scam_source |-> "unknown", scam_confidence |-> confidence,
     cluster_id |-> NoneVal]

ScamBundles ==
    {NoMatchIntel,
     MatchIntel("approval_drainer", Some(100)),
     MatchIntel("honeypot", None),
     MatchIntel("phishing", Some(90)),
     MatchIntel("cluster_associated", Some(0)),
     MatchIntel("cluster_associated", Some(50))}

InitRisk ==
    /\ \E pair \in AddressPairs :
          /\ wallet = pair[1]
          /\ contract = pair[2]
    /\ \E tf \in TypedForecasts :
          /\ tx_type = tf[1]
          /\ forecast_signals = [drain_probability |-> tf[2],
                                 attack_window_blocks |-> 0]
    /\ onchain_data \in OnchainBundles
    /\ graph_signals \in GraphBundles
    /\ scam_intel \in ScamBundles
    /\ pc = "phase0"
    /\ score = 0
    /\ reasons = << >>
    /\ result = NoResult
    /\ EngineIdle
    /\ HandlerIdle

SpecRisk == InitRisk /\ [][CalculateRisk]_vars

----------------------------------------------------------------------------
(* calculate_risk on addresses of the right length and prefix whose remaining
   characters are varied: the validity check of PHASE 0 (SpecValidate) *)

ProbeChars == {"1", "a", "F", "g", "+", "-", "_", " ", "x", "0"}

\* "0x", two probed characters, 37 digits, one probed character: 42 in all;
\* and three strings that fail the checks made before the parse
AddressCandidates ==
    { Prefix0x \o <<a, b>> \o Rep("1", 37) \o <<z>> :
        a \in ProbeChars, b \in ProbeChars, z \in ProbeChars }
    \cup {<< >>, ADDR_SHORT, Rep("1", ADDRESS_LENGTH)}

InitValidate ==
    /\ wallet \in AddressCandidates
    /\ contract = ADDR_PLAIN_CONTRACT
    /\ tx_type = "transfer"
    /\ forecast_signals = [drain_probability |-> 0, attack_window_blocks |-> 0]
    /\ \E t \in TxCounts :
          onchain_data = [tx_count |-> t, is_contract |-> FALSE,
                          contract_verified |-> "none"]
    /\ graph_signals = GraphBundle(Some(-1), NoneVal)
    /\ scam_intel = NoMatchIntel
    /\ pc = "phase0"
    /\ score = 0
    /\ reasons = << >>
    /\ result = NoResult
    /\ EngineIdle
    /\ HandlerIdle

SpecValidate == InitValidate /\ [][CalculateRisk]_vars

----------------------------------------------------------------------------
(* The engine on its own: construction from a source, then direct calls *)

MaxEntries == 2
MaxClusters == 2

Addr(c) == Prefix0x \o Rep(c, 40)

\* sequences of distinct elements of S, of length at most n
RECURSIVE SeqsUpTo(_, _)
SeqsUpTo(S, n) ==
    IF n = 0 THEN {<< >>}
    ELSE LET shorter == SeqsUpTo(S, n - 1)
         IN  shorter \cup
             UNION { {Append(q, e) : e \in {x \in S : \A k \in 1..Len(q) : q[k] # x}} :
                     q \in shorter }

Entry(a, cat, src, conf) ==
    [address |-> a, category |-> cat, source |-> src, confidence |-> conf]

Cluster(id, members, src, conf) ==
    [cluster_id |-> id, addresses |-> members, source |-> src,
     confidence |-> conf]

\* a wallet written in upper case, a wallet with defaults only, an entry
\* without an address
WalletEntries ==
    {Entry(Addr("A"), "phishing", "chainabuse", Some(90)),
     Entry(Addr("b"), Missing, Missing, MissingNum),
     Entry(MissingStr, "phishing", "chainabuse", Some(90))}

\* a contract, and a contract record for the address of the first wallet
ContractLists ==
    {<< >>,
     <<Entry(Addr("c"), "approval_drainer", "etherscan", Some(100))>>,
     <<Entry(Addr("a"), "honeypot", "etherscan", Some(0))>>,
     <<Entry(NullStr, "honeypot", "etherscan", Some(70)),
       Entry(Addr("c"), "approval_drainer", "etherscan", Some(100))>>}

\* a named cluster, a cluster with an empty id, a cluster without id and
\* members, a cluster with a null member
ClusterEntries ==
    {Cluster("c1", <<Addr("a"), Addr("D")>>, "forta", Some(80)),
     Cluster("", <<Addr("e")>>, Missing, MissingNum),
     Cluster(Missing, MissingList, "forta", Some(60)),
     Cluster("c2", <<Addr("e"), NullStr>>, "forta", Some(80))}

Sources ==
    {NoSource, [NoSource EXCEPT !.exists = TRUE]}
    \cup { [exists |-> TRUE, parses |-> TRUE, wallets |-> w,
            contracts |-> c, clusters |-> k] :
              w \in SeqsUpTo(WalletEntries, MaxEntries),
              c \in ContractLists,
              k \in SeqsUpTo(ClusterEntries, MaxClusters) }

LookupAddresses == {Addr("A"), Addr("c"), Addr("D"), Addr("e"), Addr("f")}

Transfer(frm, to) == [from |-> frm, to |-> to]

\* (wallet, transfers) pairs for direct analyses
DirectAnalyses ==
    {<<Addr("f"), <<Transfer(Addr("F"), Addr("e"))>> >>,
     <<Addr("f"), <<Transfer(Addr("f"), Addr("b")), Transfer(Addr("b"), NullStr)>> >>}

InitLoad ==
    /\ scam_db \in Sources
    /\ scam_wallets = EmptyMap
    /\ scam_contracts = EmptyMap
    /\ scam_clusters = EmptyMap
    /\ all_scam_addresses = {}
    /\ address_to_cluster = EmptyMap
    /\ graph = EmptyGraph
    /\ queried = NoQuery
    /\ recent_transfers = << >>
    /\ pc = "construct"
    /\ wallet = << >>
    /\ contract = << >>
    /\ tx_type = "none"
    /\ onchain_data = EmptyDict
    /\ graph_signals = EmptyDict
    /\ forecast_signals = EmptyDict
    /\ scam_intel = EmptyDict
    /\ score = 0
    /\ reasons = << >>
    /\ result = NoResult
    /\ HandlerIdle

NextLoad ==
    \/ Construct
    \/ \E a \in LookupAddresses : CheckScamIntelligence(a)
    \/ \E d \in DirectAnalyses : AnalyzeWalletConnections(d[1], d[2])

SpecLoad == InitLoad /\ [][NextLoad]_vars

----------------------------------------------------------------------------
(* One request through analyze_transaction, on an engine built at import *)

\* a wallet in upper case, a contract, a named cluster and a cluster whose
\* id is the empty string
PipeSource ==
    [exists |-> TRUE, parses |-> TRUE,
     wallets |-> <<Entry(Addr("A"), "phishing", "chainabuse", Some(90))>>,
     contracts |-> <<Entry(Addr("c"), "approval_drainer", "etherscan", Some(100))>>,
     clusters |-> <<Cluster("c1", <<Addr("a"), Addr("D")>>, "forta", Some(80)),
                    Cluster("", <<Addr("e")>>, Missing, MissingNum)>>]

\* an unflagged wallet, a member of the unnamed cluster, a flagged wallet
RequestWallets == {ADDR_PLAIN_WALLET, Addr("e"), Addr("a")}

\* an unflagged contract, a flagged one, one that is not hexadecimal and
\* one the request model rejects
RequestContracts == {ADDR_PLAIN_CONTRACT, Addr("C"), ADDR_NOT_HEX, ADDR_SHORT}

TxCountReplies == {RpcError, RpcResult(0), RpcResult(5)}

CodeReplies == {RpcError, RpcResult(CodeEmpty),
                RpcResult(Prefix0x \o <<"6", "0", "8", "0">>)}

\* no transfers, a transfer to the flagged wallet, a chain of two transfers
\* ending at the flagged contract, a transfer without a receiver
TransferReplies(w) ==
    {RpcError,
     RpcResult(<< >>),
     RpcResult(<<Transfer(w, Addr("A"))>>),
     RpcResult(<<Transfer(w, Addr("b")), Transfer(Addr("B"), Addr("c"))>>),
     RpcResult(<<Transfer(w, NullStr)>>)}

JsonReply(message, invalid_key, status) ==
    [kind |-> "json", message |-> message, invalid_key |-> invalid_key,
     status |-> status]

\* no key, two kinds of exception, an invalid-key reply, a rate-limit reply,
\* a body without status, "not verified", "verified"
VerifyReplies ==
    {[kind |-> "no_api_key"], [kind |-> "client_error"],
     [kind |-> "request_error"],
     JsonReply("NOTOK", TRUE, "0"),
     JsonReply("NOTOK", FALSE, "0"),
     JsonReply("OK", FALSE, Missing),
     JsonReply("NOTOK-unverified", FALSE, "0"),
     JsonReply("OK", FALSE, "1")}

InitPipe ==
    /\ scam_db = PipeSource
    /\ LET idx == LoadedIndex(PipeSource)
       IN  /\ scam_wallets = idx.scam_wallets
           /\ scam_contracts = idx.scam_contracts
           /\ scam_clusters = idx.scam_clusters
           /\ all_scam_addresses = idx.all_scam_addresses
           /\ address_to_cluster = idx.address_to_cluster
    /\ graph = EmptyGraph
    /\ queried = NoQuery
    /\ recent_transfers = << >>
    /\ wallet \in RequestWallets
    /\ contract \in RequestContracts
    /\ tx_type \in TxTypeLiteral
    /\ onchain_data = EmptyDict
    /\ graph_signals = EmptyDict
    /\ forecast_signals = EmptyDict
    /\ scam_intel = EmptyDict
    /\ score = 0
    /\ reasons = << >>
    /\ result = NoResult
    /\ HandlerIdle
    /\ pc = "request"

NextPipe ==
    \/ ReceiveRequest
    \/ IssueFetches
    \/ \E r \in TxCountReplies : CompleteFetch("tx_count", get_tx_count(r))
    \/ \E r \in CodeReplies : CompleteFetch("code", get_contract_code(r))
    \/ \E r \in TransferReplies(wallet) :
          CompleteFetch("transfers", get_recent_transfers(r))
    \/ JoinFetches
    \/ \E reply \in VerifyReplies : VerifyContract(reply)
    \/ \E fault \in BOOLEAN : ScamLookup(fault)
    \/ GraphAnalysis
    \/ \E fault \in BOOLEAN : ForecastSimulation(fault)
    \/ CallCalculateRisk
    \/ CalculateRisk
    \/ Respond

SpecPipe == InitPipe /\ [][NextPipe]_vars

----------------------------------------------------------------------------
(* Properties of calculate_risk, checked under SpecRisk *)

Returned == pc = "returned"

\* the total of the six rules before the cap, for a call that reaches them
RawTotal ==
    ScamRule(scam_intel).add
    + FreshWalletRule(Val(onchain_data.tx_count)).add
    + VerificationRule(onchain_data.is_contract,
                       onchain_data.contract_verified).add
    + GraphRule(scam_intel.scam_match, graph_signals.wallet_scam_distance,
                graph_signals.nearest_scam_category).add
    + TxTypeRule(tx_type, scam_intel.scam_category,
                 forecast_signals.drain_probability).add
    + StaticRule(wallet, contract).add

AddressesPass ==
    /\ is_valid_eth_address(wallet) /\ is_valid_eth_address(contract)
    /\ ~is_burn_address(wallet) /\ ~is_burn_address(contract)

\* C1: every score calculate_risk returns is an integer between 0 and 100,
\* on the terminal path and after rules 1-6 have accumulated and been capped.
Thm_C1_ScoreInRange ==
    Returned => result.score \in 0..100

\* C1 witness: a call on valid addresses whose rules add up to more than 100
\* has returned.
Wit_C1_Capped ==
    /\ Returned
    /\ AddressesPass
    /\ RawTotal > 100
    /\ result.score = 100

TriggeredConditions ==
    {r \in {"invalid_wallet", "invalid_contract", "burn_wallet", "burn_contract"} :
        \/ r = "invalid_wallet" /\ ~is_valid_eth_address(wallet)
        \/ r = "invalid_contract" /\ ~is_valid_eth_address(contract)
        \/ r = "burn_wallet" /\ is_burn_address(wallet)
        \/ r = "burn_contract" /\ is_burn_address(contract)}

GraphReasons == {"graph_hop0", "graph_hop1", "graph_hop2", "graph_hop3"}

\* C6: with a scam match the graph step adds no penalty and no reason, for
\* every hop distance; so no result carries both the scam-database reason and
\* a graph reason.
Thm_C6_NoDoubleCount ==
    [][ (pc = "phase3" /\ scam_intel.scam_match)
            => (score' = score /\ reasons' = reasons) ]_vars

\* C6 witness: the graph step has run for a matched address at hop 0.
Wit_C6_MatchAtHop0 ==
    /\ pc = "phase4"
    /\ scam_intel.scam_match
    /\ graph_signals.wallet_scam_distance = Some(0)
    /\ \A i \in 1..Len(reasons) : reasons[i] \notin GraphReasons

\* C7: the reasons of every result are non-empty.
Thm_C7_ReasonsNonEmpty ==
    Returned => Len(result.reasons) > 0

\* C7 witness: an unrecognised tx_type on a contract of unknown verification
\* with no rule firing has returned the two default reasons.
Wit_C7_DefaultReasons ==
    /\ Returned
    /\ tx_type = "mint"
    /\ onchain_data.is_contract
    /\ onchain_data.contract_verified = "none"
    /\ result.reasons = <<"all_checks_passed", "no_red_flags">>

----------------------------------------------------------------------------
(* Properties of the scam intelligence index, checked under SpecLoad *)

Ready == pc = "ready"
LookedUp == Ready /\ queried.op = "lookup"

ClusterMembers ==
    UNION {Range(scam_clusters[id].addresses) : id \in DOMAIN scam_clusters}

\* C8: a lookup returns the wallet record's metadata for an address in the
\* wallet map, else the contract record's, else cluster-derived metadata
\* (category cluster_associated) for a cluster member, else the no-match
\* result; so it matches exactly the addresses of the flat set.
Cex_C8_LookupPrecedence ==
    LookedUp =>
        LET a == lower(queried.address)
        IN  /\ a \in DOMAIN scam_wallets =>
                 /\ scam_intel.scam_type = "wallet"
                 /\ scam_intel.scam_category = scam_wallets[a].category
                 /\ scam_intel.scam_confidence = scam_wallets[a].confidence
            /\ (a \notin DOMAIN scam_wallets /\ a \in DOMAIN scam_contracts) =>
                 /\ scam_intel.scam_type = "contract"
                 /\ scam_intel.scam_category = scam_contracts[a].category
                 /\ scam_intel.scam_confidence = scam_contracts[a].confidence
            /\ (a \notin DOMAIN scam_wallets /\ a \notin DOMAIN scam_contracts
                  /\ a \in ClusterMembers) =>
                 /\ scam_intel.scam_match
                 /\ scam_intel.scam_category = "cluster_associated"
            /\ (a \notin DOMAIN scam_wallets /\ a \notin DOMAIN scam_contracts
                  /\ a \notin ClusterMembers) =>
                 scam_intel = NoMatchIntel
            /\ scam_intel.scam_match <=> a \in all_scam_addresses

\* C9: once the load has finished (complete, no file, or stopped on a
\* malformed entry) the flat set holds exactly the keys of the wallet map,
\* of the contract map and of the address-to-cluster map, and no lookup or
\* graph analysis changes any of the five structures.
Thm_C9_FlatSetExact ==
    /\ [](Ready => all_scam_addresses =
                      (DOMAIN scam_wallets) \cup (DOMAIN scam_contracts)
                      \cup (DOMAIN address_to_cluster))
    /\ [][Ready => UNCHANGED indexVars]_vars

\* C9 witness: a load that stopped on the second cluster, after storing the
\* first, followed by a graph analysis.
Wit_C9_PartialLoadAnalysed ==
    /\ Ready
    /\ queried.op = "analyze"
    /\ Len(scam_db.clusters) = 2
    /\ NullStr \in Range(scam_db.clusters[2].addresses)
    /\ Addr("d") \in all_scam_addresses
    /\ Addr("d") \notin DOMAIN scam_wallets

\* the source is absent, unreadable, or has an entry the loader cannot take
LoadFails(db) ==
    \/ ~db.exists
    \/ ~db.parses
    \/ \E i \in 1..Len(db.wallets) : ~AddressUsable(db.wallets[i])
    \/ \E i \in 1..Len(db.contracts) : ~AddressUsable(db.contracts[i])
    \/ \E i \in 1..Len(db.clusters) :
          NullStr \in Range(GetList(db.clusters[i].addresses, << >>))

\* C10: a load failure (missing file, or a malformed source, also one whose
\* first entries are well-formed) leaves an empty index: no wallet, contract
\* or cluster record and an empty flat set.
Cex_C10_FailureLeavesEmpty ==
    (Ready /\ LoadFails(scam_db)) =>
        /\ DOMAIN scam_wallets = {}
        /\ DOMAIN scam_contracts = {}
        /\ DOMAIN scam_clusters = {}
        /\ all_scam_addresses = {}

----------------------------------------------------------------------------
(* Properties of analyze_transaction, checked under SpecPipe *)

\* the handler has run and answered (the request passed the request model)
Answered == pc = "responded" /\ response.status # 422

FreshWalletReasons == {"fresh_wallet", "low_activity_wallet"}

\* C4: whichever of the three fetches fail, the failed values become their
\* defaults (tx_count unknown, no contract code, no transfers) and the
\* request is answered with a risk result, not an error; a failed tx-count
\* fetch on valid non-burn addresses gives a result without a fresh-wallet
\* penalty.  Stated for requests in which no phase after the fetches failed.
Cex_C4_FetchFailureDegrades ==
    (Answered /\ log = {}) =>
        /\ tasks.tx_count = Failed => IsNone(onchain_data.tx_count)
        /\ tasks.code = Failed => ~onchain_data.is_contract
        /\ response.status = 200
        /\ (tasks.tx_count = Failed /\ AddressesPass) =>
              \A i \in 1..Len(response.body.reasons) :
                  response.body.reasons[i] \notin FreshWalletReasons

\* C5: an exception inside the scam lookup, the graph analysis or the
\* forecast simulation is contained: the phase's bundle is its default and
\* the request is still answered with a risk result, never with the generic
\* internal failure.  Stated for requests whose tx-count fetch succeeded.
Cex_C5_PhaseFailureContained ==
    (Answered /\ log # {} /\ tasks.tx_count # Failed) =>
        /\ "phase1" \in log => scam_intel = ScamIntelDefault
        /\ "phase3" \in log => graph_signals = GraphUnavailable
        /\ "phase4" \in log => forecast_signals = ForecastDefault
        /\ response.status = 200

----------------------------------------------------------------------------
(* One call of analyze_wallet_connections on a loaded engine whose graph   *)
(* may still hold the nodes of an earlier call                             *)

MaxTransfers == 3

\* a wallet record, a contract record and a cluster member without record
GraphSourceRecords ==
    [exists |-> TRUE, parses |-> TRUE,
     wallets |-> <<Entry(Addr("A"), "phishing", "chainabuse", Some(90))>>,
     contracts |-> <<Entry(Addr("c"), "approval_drainer", "etherscan", Some(100))>>,
     clusters |-> <<Cluster("c1", <<Addr("D")>>, "forta", Some(80))>>]

\* one address in the wallet map and in the contract map
GraphSourceBothMaps ==
    [exists |-> TRUE, parses |-> TRUE,
     wallets |-> <<Entry(Addr("a"), "phishing", "chainabuse", Some(90))>>,
     contracts |-> <<Entry(Addr("A"), "honeypot", "etherscan", Some(70))>>,
     clusters |-> << >>]

GraphSources == {NoSource, GraphSourceRecords, GraphSourceBothMaps}

GraphWallets == {Addr("f"), Addr("A"), Addr("D")}

\* transfers between the wallet f, the unflagged 8 and 9 and the listed
\* a, c, d; one transfer has an empty "to"
TransferPool ==
    {Transfer(Addr("f"), Addr("9")),
     Transfer(Addr("9"), Addr("A")),
     Transfer(Addr("F"), Addr("d")),
     Transfer(Addr("9"), Addr("c")),
     Transfer(Addr("8"), Addr("a")),
     Transfer(Addr("9"), Addr("8")),
     Transfer(Addr("f"), << >>)}

\* the graph an earlier call left in the engine
EarlierGraphs ==
    {EmptyGraph,
     BuiltGraph(Addr("f"), <<Transfer(Addr("f"), Addr("a"))>>).graph}

InitGraph ==
    /\ scam_db \in GraphSources
    /\ LET idx == LoadedIndex(scam_db)
       IN  /\ scam_wallets = idx.scam_wallets
           /\ scam_contracts = idx.scam_contracts
           /\ scam_clusters = idx.scam_clusters
           /\ all_scam_addresses = idx.all_scam_addresses
           /\ address_to_cluster = idx.address_to_cluster
    /\ graph \in EarlierGraphs
    /\ \E w \in GraphWallets : queried = [op |-> "pending", address |-> w]
    /\ recent_transfers \in SeqsUpTo(TransferPool, MaxTransfers)
    /\ pc = "ready"
    /\ wallet = << >>
    /\ contract = << >>
    /\ tx_type = "none"
    /\ onchain_data = EmptyDict
    /\ graph_signals = EmptyDict
    /\ forecast_signals = EmptyDict
    /\ scam_intel = EmptyDict
    /\ score = 0
    /\ reasons = << >>
    /\ result = NoResult
    /\ HandlerIdle

NextGraph ==
    \/ AnalyzeWalletConnections(queried.address, recent_transfers)
    \/ CheckScamIntelligence(queried.address)

SpecGraph == InitGraph /\ [][NextGraph]_vars

----------------------------------------------------------------------------
(* Properties of analyze_wallet_connections, checked under SpecGraph *)

Analysed == pc = "ready" /\ queried.op = "analyze"

\* the undirected edges the transfers stand for, read off the transfers
TransferEdges(transfers) ==
    {{lower(transfers[i].from), lower(transfers[i].to)} :
        i \in {k \in 1..Len(transfers) :
                 Len(transfers[k].from) > 0 /\ Len(transfers[k].to) > 0}}

\* the addresses within k edges of the addresses in S
RECURSIVE Within(_, _, _)
Within(E, S, k) ==
    IF k = 0 THEN S
    ELSE LET near == Within(E, S, k - 1)
         IN  near \cup {n \in UNION E : \E m \in near : {m, n} \in E}

\* length of a shortest path from u to v over E, NoPath when there is none
PathLength(E, u, v) ==
    LET far == Cardinality(E)
    IN  IF v \notin Within(E, {u}, far) THEN NoPath
        ELSE CHOOSE k \in 0..far :
                /\ v \in Within(E, {u}, k)
                /\ \A j \in 0..(k - 1) : v \notin Within(E, {u}, j)

\* flagged addresses of the transfers with a path from the wallet, and the
\* distance of the nearest
ReachableFlagged(E, w) ==
    {n \in UNION E : n \in all_scam_addresses /\ PathLength(E, w, n) # NoPath}

ExpectedDistance(E, w) ==
    IF w \in all_scam_addresses THEN 0
    ELSE IF ReachableFlagged(E, w) = {} THEN -1
    ELSE CHOOSE d \in 0..Cardinality(E) :
            /\ \E n \in ReachableFlagged(E, w) : PathLength(E, w, n) = d
            /\ \A n \in ReachableFlagged(E, w) : PathLength(E, w, n) >= d

\* C11: the reported distance is 0 for a wallet of the flat set, otherwise
\* the least shortest-path length from the wallet to a flagged node it can
\* reach over the transfers with non-empty ends, and -1 when it can reach
\* none; connected is true exactly when the distance is not -1.
Thm_C11_MinimumHopDistance ==
    Analysed =>
        LET E == TransferEdges(recent_transfers)
            w == lower(queried.address)
        IN  /\ graph_signals.wallet_scam_distance = Some(ExpectedDistance(E, w))
            /\ graph_signals.connected_to_scam_cluster
                  <=> (graph_signals.wallet_scam_distance # Some(-1))

\* C11 witness: a flagged node two hops away is reported while another
\* flagged node of the graph has no path from the wallet.
Wit_C11_TwoHopsPastUnreachable ==
    /\ Analysed
    /\ queried.address = Addr("f")
    /\ scam_db = GraphSourceRecords
    /\ graph_signals.wallet_scam_distance = Some(2)
    /\ Addr("a") \in Range(graph.nodes)
    /\ PathLength(TransferEdges(recent_transfers), Addr("f"), Addr("a")) = NoPath

\* the record of a listed address, the wallet map consulted first
RecordAt(n) ==
    IF n \in DOMAIN scam_wallets THEN scam_wallets[n] ELSE scam_contracts[n]

\* C12: the reported nearest category and source are absent or are those of
\* the record (wallet map before contract map) of a flagged node at the
\* reported minimum distance; they never come from a flagged node farther
\* away, also when the nearest flagged node is a cluster member without
\* record.
Cex_C12_NearestCategoryAtMinimum ==
    (Analysed /\ graph_signals.connected_to_scam_cluster) =>
        LET E == TransferEdges(recent_transfers)
            w == lower(queried.address)
            d == Val(graph_signals.wallet_scam_distance)
            atMin == {n \in (UNION E) \cup {w} :
                        /\ n \in all_scam_addresses
                        /\ PathLength(E \cup {{w}}, w, n) = d}
        IN  \/ /\ graph_signals.nearest_scam_category = NoneVal
               /\ graph_signals.nearest_scam_source = NoneVal
            \/ \E n \in atMin :
                  /\ n \in (DOMAIN scam_wallets) \cup (DOMAIN scam_contracts)
                  /\ graph_signals.nearest_scam_category = RecordAt(n).category
                  /\ graph_signals.nearest_scam_source = RecordAt(n).source

----------------------------------------------------------------------------
(* One direct call of FraudSimulator.simulate_risk *)

MaxEstimate == 100

SimulatedTypes == {"approve", "swap", "send", "transfer", "mint"}

\* the call simulate_risk(tx_type, contract_risk_score, is_scam_linked)
SimulateRisk ==
    /\ pc = "simulate"
    /\ forecast_signals' = simulate_risk(queried.tx_type,
                                         queried.contract_risk_score,
                                         queried.is_scam_linked)
    /\ pc' = "simulated"
    /\ UNCHANGED <<wallet, contract, tx_type, onchain_data, graph_signals,
                   scam_intel, score, reasons, result, engineVars, pipeVars>>

InitSim ==
    /\ pc = "simulate"
    /\ scam_db = NoSource
    /\ scam_wallets = EmptyMap
    /\ scam_contracts = EmptyMap
    /\ scam_clusters = EmptyMap
    /\ all_scam_addresses = {}
    /\ address_to_cluster = EmptyMap
    /\ graph = EmptyGraph
    /\ recent_transfers = << >>
    /\ \E t \in SimulatedTypes, e \in 0..MaxEstimate, l \in BOOLEAN :
          queried = [op |-> "simulate", tx_type |-> t,
                     contract_risk_score |-> e, is_scam_linked |-> l]
    /\ wallet = << >>
    /\ contract = << >>
    /\ tx_type = "none"
    /\ onchain_data = EmptyDict
    /\ graph_signals = EmptyDict
    /\ forecast_signals = EmptyDict
    /\ scam_intel = EmptyDict
    /\ score = 0
    /\ reasons = << >>
    /\ result = NoResult
    /\ HandlerIdle

SpecSim == InitSim /\ [][SimulateRisk]_vars

----------------------------------------------------------------------------
(* Properties of simulate_risk, checked under SpecSim *)

Simulated == pc = "simulated"

TableRow(types, linked, low, high, p, w) ==
    [types |-> types, linked |-> linked, low |-> low, high |-> high,
     forecast |-> [drain_probability |-> p, attack_window_blocks |-> w]]

\* the decision table: tx types, scam_linked, the estimates low..high the
\* row covers, drain probability in hundredths, attack window in blocks
DecisionTable ==
    {TableRow({"approve"}, {TRUE}, 0, MaxEstimate, 85, 10),
     TableRow({"approve"}, {FALSE}, 70, MaxEstimate, 70, 50),
     TableRow({"approve"}, {FALSE}, 50, 69, 45, 100),
     TableRow({"approve"}, {FALSE}, 30, 49, 25, 500),
     TableRow({"approve"}, {FALSE}, 0, 29, 5, 1000),
     TableRow({"swap"}, {TRUE}, 0, MaxEstimate, 90, 1),
     TableRow({"swap"}, {FALSE}, 61, MaxEstimate, 60, 5),
     TableRow({"swap"}, {FALSE}, 31, 60, 20, 50),
     TableRow({"swap"}, {FALSE}, 0, 30, 3, 0),
     TableRow({"send", "transfer"}, {TRUE}, 0, MaxEstimate, 95, 1),
     TableRow({"send", "transfer"}, {FALSE}, 51, MaxEstimate, 30, 10),
     TableRow({"send", "transfer"}, {FALSE}, 0, 50, 1, 0)}

RowsFor(call) ==
    {row \in DecisionTable :
        /\ call.tx_type \in row.types
        /\ call.is_scam_linked \in row.linked
        /\ call.contract_risk_score \in row.low..row.high}

\* C13: for approve, swap, send and transfer, both values of scam_linked
\* and every estimate, the forecast is the one of the single row of the
\* decision table the call falls in; the drain probability lies in [0,1]
\* and the attack window is not negative.
Thm_C13_DecisionTable ==
    (Simulated /\ queried.tx_type \in {"approve", "swap", "send", "transfer"}) =>
        /\ Cardinality(RowsFor(queried)) = 1
        /\ \A row \in RowsFor(queried) : forecast_signals = row.forecast
        /\ forecast_signals.drain_probability \in 0..100
        /\ forecast_signals.attack_window_blocks >= 0

\* C13 witness: a swap at the estimate 60, the last one below the top row.
Wit_C13_SwapAtSixty ==
    /\ Simulated
    /\ queried.tx_type = "swap"
    /\ ~queried.is_scam_linked
    /\ queried.contract_risk_score = 60
    /\ forecast_signals = Forecast(20, 50)

----------------------------------------------------------------------------
(* Further properties of calculate_risk, checked under SpecRisk *)

\* 45 x multiplier x factor, counted in ten-thousandths
ExactPenalty(intel) ==
    BASE_PENALTY * CategoryMultiplier(intel.scam_category)
        * (IF IsNone(intel.scam_confidence) \/ Val(intel.scam_confidence) = 0
           THEN 100 ELSE Val(intel.scam_confidence))

\* n is an integer nearest to x ten-thousandths
IsNearest(n, x) ==
    LET off == IF 10000 * n >= x THEN 10000 * n - x ELSE x - 10000 * n
    IN  2 * off <= 10000

\* C14: with a scam match, rule 1 adds 45 x categoryMultiplier x
\* confidenceFactor rounded to the nearest integer, the factor being the
\* confidence, or 1.0 for a null or zero confidence.
Cex_C14_PenaltyRounded ==
    (pc = "signal1" /\ scam_intel.scam_match) =>
        IsNearest(score, ExactPenalty(scam_intel))

\* the table of rules 2-6, as amounts
TableFresh(t) == IF t = 0 THEN 30 ELSE IF t \in {1, 2} THEN 15 ELSE 0

TableVerification(is_contract, verified) ==
    IF is_contract /\ verified = "false" THEN 35 ELSE 0

\* hop0 is the amount at distance 0 without match
TableGraph(match, hop, category, hop0) ==
    IF match THEN 0
    ELSE IF hop = Some(0) THEN hop0
    ELSE IF hop = Some(1)
    THEN (IF category \in {"approval_drainer", "drainer_operator"} THEN 45 ELSE 35)
    ELSE IF hop = Some(2) THEN 20
    ELSE IF hop = Some(3) THEN 10
    ELSE 0

TableTxType(type, category, drain) ==
    IF type = "approve"
    THEN (IF category = "approval_drainer" THEN 45 ELSE 25)
         + (IF drain >= 80 THEN 25 ELSE IF drain >= 50 THEN 15 ELSE 0)
    ELSE IF type = "swap"
    THEN (IF category \in {"malicious_router", "honeypot"} THEN 35 ELSE 10)
    ELSE IF type \in {"send", "transfer"} THEN 5
    ELSE 0

TableStatic(w, c) ==
    (IF \E word \in {<<"d", "e", "a", "d">>, <<"b", "a", "d">>,
                     <<"s", "c", "a", "m">>, <<"f", "a", "k", "e">>,
                     <<"p", "h", "i", "s", "h">>} : Contains(lower(c), word)
     THEN 25 ELSE 0)
    + (IF SubSeq(lower(w), 1, 8) = <<"0", "x", "0", "0", "0", "0", "0", "0">>
       THEN 15 ELSE 0)

\* what rules 2..k of the table add, for the current arguments
TableThrough(k, hop0) ==
    (IF k >= 2 THEN TableFresh(Val(onchain_data.tx_count)) ELSE 0)
    + (IF k >= 3 THEN TableVerification(onchain_data.is_contract,
                                        onchain_data.contract_verified) ELSE 0)
    + (IF k >= 4 THEN TableGraph(scam_intel.scam_match,
                                 graph_signals.wallet_scam_distance,
                                 graph_signals.nearest_scam_category, hop0) ELSE 0)
    + (IF k >= 5 THEN TableTxType(tx_type, scam_intel.scam_category,
                                  forecast_signals.drain_probability) ELSE 0)
    + (IF k >= 6 THEN TableStatic(wallet, contract) ELSE 0)

\* the running total after each of the rules 2-6 is the scam penalty plus
\* the table's amounts, and the returned score is the total capped at 100
FollowsTable(hop0) ==
    /\ pc = "signal2" => score = ScamRule(scam_intel).add + TableThrough(2, hop0)
    /\ pc = "phase3" => score = ScamRule(scam_intel).add + TableThrough(3, hop0)
    /\ pc = "phase4" => score = ScamRule(scam_intel).add + TableThrough(4, hop0)
    /\ pc = "signal5" => score = ScamRule(scam_intel).add + TableThrough(5, hop0)
    /\ pc = "final" => score = ScamRule(scam_intel).add + TableThrough(6, hop0)
    /\ (Returned /\ AddressesPass) =>
          result.score = Min(ScamRule(scam_intel).add + TableThrough(6, hop0), 100)

\* C15: for valid non-burn addresses rules 2-6 add exactly the amounts of
\* the table, in which without scam match hop 1 adds 35 (45 next to a
\* drainer), hop 2 adds 20, hop 3 adds 10 and every other distance adds 0.
Cex_C15_RuleTable == FollowsTable(0)

\* C15, amended: the same table with distance 0 without scam match adding 50.
Thm_C15_RuleTableWithHopZero == FollowsTable(50)

\* C15 witness: hop 2 with a swap and nothing else returns 30, CAUTION.
Wit_C15_HopTwoSwap ==
    /\ Returned
    /\ AddressesPass
    /\ ~scam_intel.scam_match
    /\ graph_signals.wallet_scam_distance = Some(2)
    /\ tx_type = "swap"
    /\ onchain_data.tx_count = Some(3)
    /\ ~onchain_data.is_contract
    /\ TableStatic(wallet, contract) = 0
    /\ result.score = 30
    /\ result.risk = "CAUTION"

\* a returned call for a wallet without transactions approving a target
\* that is not a contract, the other three bundles at their defaults
FreshWalletApprove ==
    /\ Returned
    /\ tx_type = "approve"
    /\ onchain_data.tx_count = Some(0)
    /\ ~onchain_data.is_contract
    /\ graph_signals.wallet_scam_distance = Some(-1)
    /\ forecast_signals.drain_probability = 0
    /\ scam_intel = NoMatchIntel

----------------------------------------------------------------------------
(* The order of the rules of calculate_risk, checked under SpecRisk *)

RuleSteps == {"phase1", "signal1", "signal2", "phase3", "phase4", "signal5"}

\* the position of a step in the order of the code
StageOf(step) ==
    CASE step = "phase1"  -> 1
      [] step = "signal1" -> 2
      [] step = "signal2" -> 3
      [] step = "phase3"  -> 4
      [] step = "phase4"  -> 5
      [] step = "signal5" -> 6
      [] OTHER            -> 7

\* the rule a reason belongs to; 7 for the two default reasons
ReasonRank(r) ==
    CASE r \in {"scam_flagged", "scam_high_confidence"}                 -> 1
      [] r \in {"fresh_wallet", "low_activity_wallet"}                  -> 2
      [] r \in {"contract_unverified", "contract_verified",
                "regular_wallet"}                                       -> 3
      [] r \in {"graph_hop0", "graph_hop1", "graph_hop2", "graph_hop3"} -> 4
      [] r \in {"approve_drainer", "approve", "swap_malicious", "swap",
                "transfer", "drain_extreme", "drain_elevated"}          -> 5
      [] r \in {"keyword_contract", "null_prefix_wallet"}               -> 6
      [] r \in {"all_checks_passed", "no_red_flags"}                    -> 7
      [] OTHER                                                          -> 0

InRuleOrder(rs) ==
    /\ \A i \in 1..Len(rs) : ReasonRank(rs[i]) >= 1
    /\ \A i \in 1..(Len(rs) - 1) : ReasonRank(rs[i]) <= ReasonRank(rs[i + 1])

IsPrefix(a, b) == Len(a) <= Len(b) /\ SubSeq(b, 1, Len(a)) = a

NonTerminal == ~IsTerminal(wallet, contract)

\* while the rules run, only the rules already applied have left reasons
ReasonsSoFarInOrder ==
    (NonTerminal /\ pc \in RuleSteps \cup {"final"}) =>
        /\ InRuleOrder(reasons)
        /\ \A i \in 1..Len(reasons) : ReasonRank(reasons[i]) < StageOf(pc)

ReturnedInOrder ==
    (NonTerminal /\ Returned) =>
        /\ result.reasons = reasons
        /\ InRuleOrder(result.reasons)

\* a rule or the final step keeps the earlier reasons as a prefix, and a rule
\* does not lower the score
RuleStepAppends ==
    /\ pc \in RuleSteps \cup {"final"} => IsPrefix(reasons, reasons')
    /\ pc \in RuleSteps => score' >= score

\* C21: in every non-terminal result of calculate_risk the reasons are in the
\* order of the rules (scam match, fresh wallet, contract verification, graph
\* exposure, transaction type and drain probability, static heuristics); each
\* rule only appends, so the reasons after any rule are a prefix of the final
\* list, and the running score never decreases from one rule to the next
Thm_C21_ReasonsInRuleOrder ==
    /\ [](ReasonsSoFarInOrder /\ ReturnedInOrder)
    /\ [][RuleStepAppends]_vars

\* a capped result with reasons of every rule but the graph rule, which a
\* direct match suppresses
Wit_C21_FiveRulesSpoke ==
    /\ NonTerminal
    /\ Returned
    /\ {ReasonRank(r) : r \in Range(result.reasons)} = {1, 2, 3, 5, 6}
    /\ result.score = 100

----------------------------------------------------------------------------
(* The validity check of PHASE 0, checked under SpecValidate *)

\* the format stated for a valid address: "0x" and exactly 40 hex digits
MatchesAddressFormat(a) ==
    /\ Len(a) = ADDRESS_LENGTH
    /\ startswith(a, Prefix0x)
    /\ \A i \in 3..Len(a) : a[i] \in HexDigits

\* C20: is_valid_eth_address(a) is true if and only if a is "0x" followed by
\* exactly 40 hexadecimal digits; any other string, in particular a
\* 42-character one beginning with "0x" that holds a sign, an underscore,
\* whitespace or a second "0x", is invalid and ends calculate_risk on the
\* terminal path with score 100
Cex_C20_ValidIffAddressFormat ==
    Returned =>
        IF MatchesAddressFormat(wallet)
        THEN result.reasons # <<"invalid_wallet">>
        ELSE result = TerminalResult(<<"invalid_wallet">>)

----------------------------------------------------------------------------
(* Further properties of analyze_transaction, checked under SpecPipe *)

\* the verification check did not succeed: no key, an exception, or a
\* reply of the provider that is an error (invalid key, rate limit) or has
\* no status
VerificationFailed(reply) ==
    \/ reply.kind \in {"no_api_key", "client_error", "request_error"}
    \/ /\ reply.kind = "json"
       /\ \/ reply.invalid_key
          \/ reply.status = Missing
          \/ reply = JsonReply("NOTOK", FALSE, "0")

\* C17: once a contract is detected, a verification check that failed
\* leaves contract_verified unknown, never false, so the request does not
\* carry the unverified-contract penalty.
Cex_C17_FailedCheckIsUnknown ==
    (verify_reply # NoReply /\ VerificationFailed(verify_reply)) =>
        /\ onchain_data.contract_verified = "none"
        /\ (pc = "responded" /\ response.status = 200) =>
              \A i \in 1..Len(response.body.reasons) :
                  response.body.reasons[i] # "contract_unverified"

----------------------------------------------------------------------------
(* Concurrent requests on the one engine of main.py.  analyze_transaction  *)
(* is a coroutine on one event loop: it is suspended at "await             *)
(* asyncio.gather(...)" and at "await ...check_contract_verified(...)" and *)
(* nowhere else; phases 1, 3, 4 and 5 hold no await and run in one piece.  *)

MaxRequests == 2

RequestIds == 1..MaxRequests

ConcWallets == {Addr("f"), Addr("9")}

\* what get_recent_transfers may return for a wallet: nothing, a transfer
\* to a listed wallet, a transfer to the other requester, a null "to"
ConcTransfers(w) ==
    {<< >>,
     <<Transfer(w, Addr("A"))>>,
     <<Transfer(w, Addr("f")), Transfer(w, Addr("9"))>>,
     <<Transfer(w, NullStr)>>}

\* phase 3 of the handler for one request: the engine's graph after the
\* call and the signals the handler keeps
Phase3Of(w, transfers) ==
    LET built == BuiltGraph(w, transfers)
    IN  [graph |-> built.graph,
         signals |-> IF built.raised THEN GraphUnavailable
                     ELSE SignalsOf(Nearest(built.graph, lower(w)))]

\* what a step of one in-flight request leaves alone
ConcFrame ==
    UNCHANGED <<riskArgs, riskVars, scam_db, indexVars, queried,
                recent_transfers, tasks, attempts, verify_reply, log,
                response>>

\* the handler of request r runs up to its first await
ConcIssueFetches(r) ==
    /\ inflight[r].pc = "new"
    /\ inflight' = [inflight EXCEPT ![r].pc = "gather"]
    /\ UNCHANGED graph
    /\ ConcFrame

\* the handler runs from a resumption to the end of the request
ConcFinish(r, transfers) ==
    LET phase3 == Phase3Of(inflight[r].wallet, transfers)
    IN  /\ graph' = phase3.graph
        /\ inflight' = [inflight EXCEPT ![r].pc = "done",
                                        ![r].transfers = transfers,
                                        ![r].graph_signals = phase3.signals]

\* the gather completes: the handler either awaits the verification check
\* of a detected contract or runs to the end
ConcJoinFetches(r, transfers, is_contract) ==
    /\ inflight[r].pc = "gather"
    /\ IF is_contract
       THEN /\ inflight' = [inflight EXCEPT ![r].pc = "verify",
                                            ![r].is_contract = TRUE,
                                            ![r].transfers = transfers]
            /\ UNCHANGED graph
       ELSE ConcFinish(r, transfers)
    /\ ConcFrame

\* the verification check completes
ConcVerifyContract(r) ==
    /\ inflight[r].pc = "verify"
    /\ ConcFinish(r, inflight[r].transfers)
    /\ ConcFrame

NewRequest(w) ==
    [pc |-> "new", wallet |-> w, is_contract |-> FALSE, transfers |-> << >>,
     graph_signals |-> EmptyDict]

InitConc ==
    /\ scam_db = GraphSourceRecords
    /\ LET idx == LoadedIndex(scam_db)
       IN  /\ scam_wallets = idx.scam_wallets
           /\ scam_contracts = idx.scam_contracts
           /\ scam_clusters = idx.scam_clusters
           /\ all_scam_addresses = idx.all_scam_addresses
           /\ address_to_cluster = idx.address_to_cluster
    /\ graph = EmptyGraph
    /\ queried = NoQuery
    /\ recent_transfers = << >>
    /\ inflight \in [RequestIds -> {NewRequest(w) : w \in ConcWallets}]
    /\ tasks = [tx_count |-> IdleTask, code |-> IdleTask, transfers |-> IdleTask]
    /\ attempts = NoAttempts
    /\ verify_reply = NoReply
    /\ log = {}
    /\ response = NoResponse
    /\ pc = "serving"
    /\ wallet = << >>
    /\ contract = << >>
    /\ tx_type = "none"
    /\ onchain_data = EmptyDict
    /\ graph_signals = EmptyDict
    /\ forecast_signals = EmptyDict
    /\ scam_intel = EmptyDict
    /\ score = 0
    /\ reasons = << >>
    /\ result = NoResult

NextConc ==
    \/ \E r \in RequestIds : ConcIssueFetches(r)
    \/ \E r \in RequestIds :
          \E transfers \in ConcTransfers(inflight[r].wallet),
             is_contract \in BOOLEAN :
                ConcJoinFetches(r, transfers, is_contract)
    \/ \E r \in RequestIds : ConcVerifyContract(r)

SpecConc == InitConc /\ [][NextConc]_vars

----------------------------------------------------------------------------
(* Properties of concurrent requests, checked under SpecConc *)

\* the addresses a request brings into a graph
OwnNodes(req) ==
    {lower(req.wallet)} \cup UNION TransferEdges(
        [i \in 1..Len(req.transfers) |->
            IF req.transfers[i].to = NullStr
            THEN Transfer(req.transfers[i].from, << >>)
            ELSE req.transfers[i]])

HasNullEnd(transfers) ==
    \E i \in 1..Len(transfers) :
        transfers[i].from = NullStr \/ transfers[i].to = NullStr

\* the signals of a finished request are those of its own wallet and
\* transfers taken alone
OwnSignals(req) ==
    IF HasNullEnd(req.transfers)
    THEN req.graph_signals = GraphUnavailable
    ELSE LET d == ExpectedDistance(TransferEdges(req.transfers),
                                   lower(req.wallet))
         IN  /\ req.graph_signals.wallet_scam_distance = Some(d)
             /\ req.graph_signals.connected_to_scam_cluster <=> (d # -1)

\* C18: under every interleaving of the requests at their awaits, the graph
\* signals of a finished request are those of its own wallet and transfers
\* alone, and the graph a request has just built and traversed holds none
\* of another request's nodes.
Thm_C18_NoCrossRequestGraph ==
    /\ [](\A r \in RequestIds :
             inflight[r].pc = "done" => OwnSignals(inflight[r]))
    /\ [][\A r \in RequestIds :
             (inflight[r].pc # "done" /\ inflight'[r].pc = "done")
                => Range(graph'.nodes) \subseteq OwnNodes(inflight'[r])]_vars

\* C18 witness: request 1 was suspended with its transfers, request 2
\* (whose transfers name the wallet of request 1) ran to the end meanwhile,
\* and request 1 finished last; each has the signals of its own graph.
Wit_C18_Interleaved ==
    /\ inflight[1].pc = "done"
    /\ inflight[2].pc = "done"
    /\ inflight[1].wallet = Addr("f")
    /\ inflight[1].is_contract
    /\ inflight[1].transfers = <<Transfer(Addr("f"), Addr("A"))>>
    /\ inflight[1].graph_signals.wallet_scam_distance = Some(1)
    /\ inflight[2].wallet = Addr("9")
    /\ inflight[2].transfers =
          <<Transfer(Addr("9"), Addr("f")), Transfer(Addr("9"), Addr("9"))>>
    /\ inflight[2].graph_signals.wallet_scam_distance = Some(-1)
    /\ Range(graph.nodes) = {Addr("f"), Addr("a")}

----------------------------------------------------------------------------
(* Properties of the upstream calls of one request, checked under SpecPipe *)

\* the handler has been entered and has issued the gather
Issued == pc \notin {"request", "gather"} /\ response.status # 422

\* the handler is past the verification step
PastVerify == Issued /\ pc \notin {"await", "verify"}

\* the code fetch returned bytecode longer than "0x"
CodeIndicatesContract ==
    tasks.code.state = "done" /\ Len(tasks.code.value) > 2

\* C19: in one request each of the three fetches is attempted exactly once,
\* none is pending any more when a later step runs, and the verification
\* check is made once, after the join, exactly when the fetched bytecode
\* indicates a contract, and never after a failed code fetch.
Thm_C19_SingleAttempts ==
    /\ ~Issued => attempts = NoAttempts
    /\ Issued =>
          /\ attempts.get_tx_count = 1
          /\ attempts.get_contract_code = 1
          /\ attempts.get_recent_transfers = 1
    /\ (Issued /\ pc # "await") =>
          \A name \in {"tx_count", "code", "transfers"} :
              tasks[name].state \in {"done", "failed"}
    /\ (Issued /\ ~PastVerify) => attempts.check_contract_verified = 0
    /\ pc = "verify" => CodeIndicatesContract
    /\ PastVerify =>
          attempts.check_contract_verified =
              (IF CodeIndicatesContract THEN 1 ELSE 0)

\* C19 witness: a request whose tx-count and code fetches failed has been
\* answered after one attempt of each fetch and no verification check.
Wit_C19_FailedFetchesOnce ==
    /\ pc = "responded"
    /\ tasks.tx_count = Failed
    /\ tasks.code = Failed
    /\ attempts = [NoAttempts EXCEPT !.get_tx_count = 1,
                                     !.get_contract_code = 1,
                                     !.get_recent_transfers = 1]

----------------------------------------------------------------------------
(* The graph penalty and the forecast of one request, checked under SpecPipe *)

\* PHASE 3 has produced signals for the request
GraphAnalysed == graph_signals # EmptyDict

LookupSucceeded == "phase1" \notin log

\* C22: in analyze_transaction the hop-0 graph penalty cannot be reached:
\* whenever the graph analysis reports distance 0 for the request's wallet
\* and the scam lookup did not fail, the scam_intel passed to calculate_risk
\* has scam_match true, so the "graph_hop0" reason is never appended (stated
\* for the requests whose addresses pass PHASE 0)
Cex_C22_HopZeroImpliesMatch ==
    (Answered /\ response.status = 200 /\ NonTerminal
        /\ GraphAnalysed /\ LookupSucceeded
        /\ graph_signals.wallet_scam_distance = Some(0)) =>
        /\ scam_intel.scam_match
        /\ "graph_hop0" \notin Range(response.body.reasons)

\* is_direct_scam or is_graph_exposed
ScamLinked == scam_intel.scam_match \/ graph_signals.connected_to_scam_cluster

\* PHASE 4 has produced a forecast, by the simulator or by its except branch
Forecasted == forecast_signals # EmptyDict

SimulatorRan == "phase4" \notin log

ApproveResult ==
    /\ Answered
    /\ response.status = 200
    /\ NonTerminal
    /\ tx_type = "approve"

\* C23: the forecast passed to calculate_risk never has a drain probability
\* in [0.5, 0.8): a request that is not scam-linked has a contract-risk
\* estimate of 0, 15 or 35, which selects only the rows below 0.5; hence for
\* approve the "elevated drain risk" rule never fires, and the "extremely
\* high drain risk" rule fires only for a scam-linked request and, when the
\* simulator ran, for every scam-linked request (direct match or a graph
\* connection at any distance)
Thm_C23_NoMiddleDrainProbability ==
    /\ Forecasted => forecast_signals.drain_probability \notin 50..79
    /\ (Forecasted /\ ~ScamLinked) =>
          /\ ContractRiskEstimate(scam_intel, onchain_data, graph_signals)
                \in {0, 15, 35}
          /\ forecast_signals.drain_probability < 50
    /\ ApproveResult =>
          /\ "drain_elevated" \notin Range(response.body.reasons)
          /\ "drain_extreme" \in Range(response.body.reasons) => ScamLinked
          /\ (SimulatorRan /\ ScamLinked) =>
                "drain_extreme" \in Range(response.body.reasons)

\* an approve of an unflagged contract by an unflagged wallet two hops from
\* a flagged contract: no direct match, and the +25 rule has fired
Wit_C23_GraphLinkedApprove ==
    /\ ApproveResult
    /\ ~scam_intel.scam_match
    /\ graph_signals.wallet_scam_distance = Some(2)
    /\ forecast_signals.drain_probability = 85
    /\ "drain_extreme" \in Range(response.body.reasons)

====
